---- MODULE Spec2Model ----
(***************************************************************************)
(* A model of the synchronisation, registration and transfer core of the   *)
(* one-sided MPI coarray runtime in src/src/mpi/mpi_caf.c.                 *)
(*                                                                         *)
(* The runtime is a set of images (MPI processes).  Every subsystem has    *)
(* its own group of variables and its own specification; a specification   *)
(* keeps the variables of the other subsystems at their idle values.       *)
(***************************************************************************)
EXTENDS Integers, Sequences, FiniteSets, TLC

(***************************************************************************)
(* Status codes of libcaf.h.                                               *)
(***************************************************************************)
STAT_DUP_SYNC_IMAGES == 3
STAT_STOPPED_IMAGE == 6000
STAT_FAILED_IMAGE == 6001
STAT_ALREADY_LOCKED == 99

VARIABLES
  \* ---- mutex_lock / mutex_unlock
  lock_win,        \* lock_win[h]: the lock slot hosted on image h
  lpc,             \* lpc[i]: "idle", "spin" (inside the retry loop), "exited"
  l_image_index,   \* l_image_index[i]: the image a spinning lock call of i addresses (0: none)
  l_last,          \* the last call that returned: its image and how it returned
  l_errmsg,        \* what that call wrote into its errmsg argument
  holds,           \* history: hosts whose slot i has locked and not unlocked
  l_aborted,       \* MPI_Abort has been called by terminate_internal
  \* ---- events
  ev_win,          \* ev_win[h]: the event counter hosted on image h
  epc,             \* epc[i]: "idle", "spin" (count < until_count), "sub" (loops left)
  e_until,         \* e_until[i]: until_count of the event_wait image i is in
  e_count,         \* e_count[i]: the local variable count of that event_wait
  e_query,         \* the last event_query: the count it delivered, and whether a wait had returned
  e_posts_left,    \* e_posts_left[i]: event_post calls image i still makes
  e_waits_left,    \* e_waits_left[i]: event_wait calls image i still makes
  e_until_set,     \* the until_count arguments the program uses
  ev_posted,       \* history: ev_posted[h] posts applied to the counter on h
  ev_consumed,     \* history: ev_consumed[h] sum of until_count over the waits completed on h
  e_observed,      \* history: count observed by the last completed wait (NoValue: none)
  \* ---- sync images, stop, finalize
  spc,             \* spc[i]: where image i is: "idle", "send", "wait", "announce_fin",
                   \*   "announce_stop", "abort", "barrier", "stopped", "exited", "killed"
  s_args,          \* s_args[i]: arguments of the sync_images call image i is in
  s_idx,           \* s_idx[i]: loop index i of the send loop image i is in
  s_blocked,       \* s_blocked[i]: the MPI_Send image i is in waits for its match
  s_done_count,    \* s_done_count[i]: done_count
  chan,            \* chan[src][dst]: unmatched SYNC_IMAGES messages from src to dst
  s_req,           \* s_req[i][src]: sync_handles entry for src: "none", "pending", "done"
  s_stale,         \* s_stale[i][src]: receives for src left pending by earlier calls
  arrived,         \* arrived[i][src]: the receive buffer
  caf_is_finalized,
  s_last,          \* the sync_images call that returned in the last step, if one did
  s_calls_left,    \* s_calls_left[i]: sync_images calls image i still makes
  s_plan,          \* s_plan[i]: the arguments image i uses
  s_may_stop,      \* the programme contains stop or finalize
  s_rendezvous,    \* the MPI library sends these messages synchronously
  s_started,       \* history: s_started[a][b] syncs naming b that a has entered
  s_passed,        \* history: s_passed[a][b] syncs naming b that gave a stat 0
  \* ---- register, deregister
  r_script,        \* the collective calls of the programme, in order
  r_pos,           \* r_pos[i]: calls of r_script image i has returned from
  r_phase,         \* r_phase[i]: "idle", "alloc", "sync", "free", "barrier", "exited"
  r_hasStat,       \* r_hasStat[i]: the register image i is in has a stat argument
  r_stat,          \* r_stat[i]: the stat variable of image i
  r_held,          \* r_held[i][k]: the programme on image i holds token k
  r_memptr,        \* r_memptr[i][k]: memptr of token k on image i (0: NULL)
  caf_allocated_tokens, \* caf_allocated_tokens[i]: the list, head first
  r_win,           \* r_win[i][k]: window of token k on image i: "none", "open", "freed"
  r_base,          \* r_base[i][k]: base address of that window on image i
  r_data,          \* r_data[i][k]: content of image i's part of token k
  r_heap,          \* r_heap[i]: where image i's allocations lie
  r_fault,         \* an RMA access has met a window that is not open
  r_finalized,     \* r_finalized[i]: caf_is_finalized on image i
  r_errmsg,        \* the errmsg argument after the last call that left by its error exit
  \* ---- send, get, sendget, co_sum / co_min / co_max
  x_mem,           \* x_mem[j][e]: element e of image j's part of the coarray
  x_buf,           \* x_buf[i][e]: element e of the local array of image i
  x_win_locks,     \* x_win_locks[j]: MPI_Win_lock calls on the window at target j
  x_rma,           \* x_rma[j]: MPI_Put and MPI_Get calls addressing target j
  x_coll,          \* x_coll[i]: MPI_Allreduce and MPI_Reduce calls image i has made
  pending_puts,    \* pending_puts[i]: the FIFO of image i, oldest first
  x_stat,          \* x_stat[i]: the stat variable of image i
  x_pc,            \* x_pc[i]: "idle", "coll" (inside the collective of a reduction)
  x_call,          \* x_call[i]: the arguments of the reduction image i is in
  x_last,          \* the call entered in the last step, if one was
  x_build,         \* the build: "CAF_MPI_LOCK_UNLOCK", "NONBLOCKING_PUT", "MPI_Win_flush"
  x_ops_left,      \* calls the programme still makes
  \* ---- send and get of array sections, element by element
  t_pc,            \* "start", "sent", "synced", "got"
  t_A,             \* t_A[k]: element at offset k of the local array A of image 1
  t_B,             \* t_B[k]: element at offset k of the local array B of image 1
  t_win,           \* t_win[k]: element at offset k of the peer's part of the coarray
  t_pending,       \* the writes of MPI_Put calls that have not completed at the peer
  t_desc,          \* the descriptors of the send: local section, remote section
  t_build,         \* the build, as x_build
  t_got,           \* the get that returned: its descriptors, what it read from, its path
  \* ---- send between elements of different size or kind
  b_pc,            \* "start", "done"
  b_call,          \* the arguments of the send
  b_src,           \* b_src[k]: byte k of the memory at src->base_addr
  b_dst,           \* b_dst[k]: byte k of the memory the destination array lies in
  b_fault,         \* bytes were written outside the destination array
  \* ---- get_by_ref
  g_pc,            \* "start", "done"
  g_call,          \* the arguments: remote descriptor, reference, dst, dst_reallocatable
  g_dst,           \* the destination descriptor: base_addr and dim
  g_mem,           \* what was stored through dst->base_addr: records [at, val]
  g_out,           \* how the call ended: "none", "returned" or the error it died of
  \* ---- reduction of an array section
  c_pc,            \* "start", "done", "killed"
  c_call,          \* the arguments every image passes: op, source, result_image, data
  c_mem,           \* c_mem[p][k]: element k of the memory at source->base_addr on image p
  c_fault,         \* an element outside the section was handed to MPI
  \* ---- operations in a build with WITH_FAILED_IMAGES
  f_pc,            \* "start", "returned", "terminated", "spinning"
  f_call,          \* the operation, its arguments and what MPI answers
  f_stat,          \* the caller's stat variable, NoValue until written
  f_detected,      \* the operation named a failed image or found one
  \* ---- init, finalize and the MPI library of each process
  mpi_state,       \* mpi_state[i]: MPI on image i: "uninit", "init", "finalized"
  mpi_by_embedder, \* mpi_by_embedder[i]: the program itself has called MPI_Init
  mpi_inits,       \* history: mpi_inits[i] calls of MPI_Init made by the runtime
  mpi_finalizes,   \* history: mpi_finalizes[i] calls of MPI_Finalize made by the runtime
  caf_owns_mpi,    \* caf_owns_mpi[i]
  o_num_images,    \* o_num_images[i]: caf_num_images on image i (0 before init)
  o_is_finalized,  \* o_is_finalized[i]: caf_is_finalized on image i
  o_pc,            \* o_pc[i]: "idle", or "barrier" inside finalize_internal
  o_init_calls,    \* history: o_init_calls[i] calls of init made on image i
  \* ---- stop, error stop
  q_pc,            \* q_pc[i]: "run", "announce", "abort", "exited", "killed"
  q_call,          \* q_call[i]: the stop function image i has called, and its argument
  q_img_status,    \* q_img_status[i]: img_status of image i
  q_idx,           \* q_idx[i]: loop index of the announcing loop of finalize_internal
  q_got,           \* q_got[i][j]: the status words image i has sent to image j
  q_exit,          \* q_exit[i]: the exit code image i has ended with (NoValue: none)
  q_build,         \* "plain" or "WITH_FAILED_IMAGES"
  \* ---- the two token lists of one image
  tk_list,         \* tk_list.master, tk_list.slave: the lists, head first
  tk_rec,          \* tk_rec[t]: the record of token t: kind, state, memptr (0: NULL)
  tk_count,        \* tokens created so far
  tk_view,         \* tk_view[t]: what the programme holds: "none", "unallocated", "allocated", "gone"
  tk_live,         \* history: tokens registered and not fully deregistered
  tk_released,     \* history: tk_released[t] times the record of t was freed
  tk_dealloc_used, \* history: a deregister in deallocate-only mode has been made
  tk_finalized,    \* finalize_internal has run
  tk_fault,        \* a freed record has been used
  \* ---- finalize_internal (0) on every image
  td_pc,            \* td_pc[i]: where image i is in finalize_internal
  td_log,           \* td_log[i]: history, the steps image i has made, in order
  td_img_status,    \* td_img_status[i]: img_status of image i
  td_stat_lock,     \* td_stat_lock[i]: holder of the exclusive lock on i's status slot, 0: free
  td_idx,           \* td_idx[i]: the loop index of the MPI_Send loop
  td_got,           \* td_got[i]: the images whose status message has been sent to i
  td_arrived,       \* the images that have entered MPI_Barrier (CAF_COMM_WORLD)
  td_slave,         \* td_slave[i]: elements on caf_allocated_slave_tokens of i
  td_master,        \* td_master[i]: elements on caf_allocated_tokens of i
  td_owns_mpi,      \* caf_owns_mpi, the same on every image
  td_is_finalized,  \* td_is_finalized[i]: caf_is_finalized
  td_build,         \* "plain" or "WITH_FAILED_IMAGES"
  td_lock_build,    \* "CAF_MPI_LOCK_UNLOCK" or "MPI_Win_flush": what CAF_Win_lock and CAF_Win_unlock are
  \* ---- register of a lock or event object and the first operations on it
  z_pc,            \* z_pc[i]: where image i is in register
  z_win,           \* z_win[i][s]: slot s of the object's window on image i
  z_entered,       \* the images that have entered MPI_Win_allocate
  z_synced,        \* the images that have entered sync_all (build before GCC 7)
  z_held,          \* history: <<j, s, i>>: image i's compare-and-swap on slot s of j succeeded
  z_posted,        \* history: z_posted[j][s] event posts made on slot s of image j
  z_kind,          \* "lock" or "event"
  z_build,         \* "GCC_GE_7" or "pre_GCC_7"
  \* ---- mutex_lock of the WITH_FAILED_IMAGES build on one slot of image 1
  wf_slot,         \* the slot: 0 or the index of an image
  wf_pc,           \* wf_pc[i]: "idle", "spin" (in the retry loop) or "failed"
  wf_image_stati,  \* wf_image_stati[i][j]: image_stati[j - 1] on image i
  wf_holds,        \* history: wf_holds[i]: i has returned from lock and not unlocked since
  wf_last,         \* history: the last return of a lock call
  \* ---- pending puts of one image (NONBLOCKING_PUT without CAF_MPI_LOCK_UNLOCK)
  pp_fifo,         \* the list pending_puts .. last_elem: entries [win, img]
  pp_sent,         \* history: window and target of the puts not flushed since
  pp_flushed,      \* the MPI_Win_flush calls of the last sync operation, in order
  pp_last,         \* the last call that returned and the path it took
  pp_finalized,    \* caf_is_finalized
  pp_build,        \* "GCC_GE_7" or "pre_GCC_7"
  \* ---- failed_stopped_errorhandler_function (WITH_FAILED_IMAGES), one process
  eh_pc,           \* "idle", "redo", "shrunk", "split", "agreed", "returned", "aborted"
  eh_call,         \* the error class and the group size of the invocation
  eh_pcomm,        \* *pcomm, the communicator of the invocation
  eh_alive_comm,   \* alive_comm
  eh_shrunk,       \* the local shrunk: a communicator or EhNull
  eh_newcomm,      \* the local newcomm: a communicator or EhNull
  eh_rc,           \* rc, the result of MPI_Comm_split
  eh_flag,         \* flag after flag = MPIX_Comm_agree (newcomm, &flag)
  eh_perr,         \* *perr as the handler leaves it (NoValue: not written)
  eh_stat_win,     \* the id of the communicator the window stat_tok is created over
  eh_live,         \* ids of the communicators that exist (created and not freed)
  eh_round,        \* rounds of the loop that have failed
  eh_num_failed,   \* num_images_failed
  \* ---- window locks of one image (CAF_MPI_LOCK_UNLOCK, no STRIDED)
  wl_held,         \* the window locks the image holds: records [type, img, win]
  wl_last,         \* the last operation, its path and its RMA calls with the locks held
  wl_fault,        \* MPI_Win_lock on a window and target the image has locked already
  sa_pc,          \* self access: "start" or "done"
  sa_mem,         \* self access: the memory of the calling image, by element
  sa_call,        \* self access: the call made, NoSelfCall before it
  u_source,       \* unravel: the dimensions of the descriptor, "none" outside
  u_visit,        \* unravel: u_visit[op] the offsets op has handed to MPI, in order
  at_word,        \* atomics: at_word[j] the atomic variable in the window of image j
  at_old,         \* atomics: at_old[i] the variable image i passes as old
  at_last,        \* atomics: the last call of atomic_op, NoAtomicCall before it
  fi_pc,          \* finalize_internal: fi_pc[i], where image i is
  fi_code,        \* fi_code[i]: the status_code of the call of image i, NoValue before
  fi_img_status,  \* fi_img_status[i]: img_status, the status word of image i
  fi_idx,         \* fi_idx[i]: the index of the announcing loop
  fi_sent,        \* fi_sent[i][j]: the status words image i has sent to image j
  fi_arrived,     \* the images that have entered MPI_Barrier (CAF_COMM_WORLD)
  fi_held,        \* fi_held[i]: what image i has not released
  fi_is_finalized,\* fi_is_finalized[i]: caf_is_finalized of image i
  fi_build        \* "plain" or "WITH_FAILED_IMAGES"

lockVars == <<lock_win, lpc, l_image_index, l_last, l_errmsg, holds, l_aborted>>

evVars == <<ev_win, epc, e_until, e_count, e_query, e_posts_left, e_waits_left,
            e_until_set, ev_posted, ev_consumed, e_observed>>

syncVars == <<spc, s_args, s_idx, s_blocked, s_done_count, chan, s_req, s_stale,
              arrived, caf_is_finalized, s_last, s_calls_left, s_plan, s_may_stop,
              s_rendezvous, s_started, s_passed>>

regVars == <<r_script, r_pos, r_phase, r_hasStat, r_stat, r_held, r_memptr,
             caf_allocated_tokens, r_win, r_base, r_data, r_heap, r_fault, r_finalized,
             r_errmsg>>

xferVars == <<x_mem, x_buf, x_win_locks, x_rma, x_coll, pending_puts, x_stat, x_pc,
              x_call, x_last, x_build, x_ops_left>>

secVars == <<t_pc, t_A, t_B, t_win, t_pending, t_desc, t_build, t_got>>

byteVars == <<b_pc, b_call, b_src, b_dst, b_fault>>

refVars == <<g_pc, g_call, g_dst, g_mem, g_out>>

redVars == <<c_pc, c_call, c_mem, c_fault>>

failVars == <<f_pc, f_call, f_stat, f_detected>>

ownVars == <<mpi_state, mpi_by_embedder, mpi_inits, mpi_finalizes, caf_owns_mpi,
  o_num_images, o_is_finalized, o_pc, o_init_calls>>

stopVars == <<q_pc, q_call, q_img_status, q_idx, q_got, q_exit, q_build>>

tokVars == <<tk_list, tk_rec, tk_count, tk_view, tk_live, tk_released, tk_dealloc_used,
  tk_finalized, tk_fault>>

finVars == <<td_pc, td_log, td_img_status, td_stat_lock, td_idx, td_got, td_arrived,
  td_slave, td_master, td_owns_mpi, td_is_finalized, td_build, td_lock_build>>

zeroVars == <<z_pc, z_win, z_entered, z_synced, z_held, z_posted, z_kind, z_build>>

stealVars == <<wf_slot, wf_pc, wf_image_stati, wf_holds, wf_last>>

putVars == <<pp_fifo, pp_sent, pp_flushed, pp_last, pp_finalized, pp_build>>

handlerVars == <<eh_pc, eh_call, eh_pcomm, eh_alive_comm, eh_shrunk, eh_newcomm, eh_rc,
  eh_flag, eh_perr, eh_stat_win, eh_live, eh_round, eh_num_failed>>

winLockVars == <<wl_held, wl_last, wl_fault>>

selfVars == <<sa_pc, sa_mem, sa_call>>

unravelVars == <<u_source, u_visit>>

atomicVars == <<at_word, at_old, at_last>>

abnormalVars == <<fi_pc, fi_code, fi_img_status, fi_idx, fi_sent, fi_arrived, fi_held,
  fi_is_finalized, fi_build>>

vars == <<lockVars, evVars, syncVars, regVars, xferVars, secVars, byteVars, refVars,
  redVars, failVars, ownVars, stopVars, tokVars, finVars, zeroVars, stealVars, putVars,
  handlerVars, winLockVars, selfVars, unravelVars, atomicVars, abnormalVars>>

\* What the steps of one subsystem leave alone.
notLockVars == <<evVars, syncVars, regVars, xferVars, secVars, byteVars, refVars,
  redVars, failVars, ownVars, stopVars, tokVars, finVars, zeroVars, stealVars, putVars,
  handlerVars, winLockVars, selfVars, unravelVars, atomicVars, abnormalVars>>
notEvVars == <<lockVars, syncVars, regVars, xferVars, secVars, byteVars, refVars,
  redVars, failVars, ownVars, stopVars, tokVars, finVars, zeroVars, stealVars, putVars,
  handlerVars, winLockVars, selfVars, unravelVars, atomicVars, abnormalVars>>
notSyncVars == <<lockVars, evVars, regVars, xferVars, secVars, byteVars, refVars,
  redVars, failVars, ownVars, stopVars, tokVars, finVars, zeroVars, stealVars, putVars,
  handlerVars, winLockVars, selfVars, unravelVars, atomicVars, abnormalVars>>
notRegVars == <<lockVars, evVars, syncVars, xferVars, secVars, byteVars, refVars,
  redVars, failVars, ownVars, stopVars, tokVars, finVars, zeroVars, stealVars, putVars,
  handlerVars, winLockVars, selfVars, unravelVars, atomicVars, abnormalVars>>
notXferVars == <<lockVars, evVars, syncVars, regVars, secVars, byteVars, refVars,
  redVars, failVars, ownVars, stopVars, tokVars, finVars, zeroVars, stealVars, putVars,
  handlerVars, winLockVars, selfVars, unravelVars, atomicVars, abnormalVars>>
notSecVars == <<lockVars, evVars, syncVars, regVars, xferVars, byteVars, refVars,
  redVars, failVars, ownVars, stopVars, tokVars, finVars, zeroVars, stealVars, putVars,
  handlerVars, winLockVars, selfVars, unravelVars, atomicVars, abnormalVars>>
notByteVars == <<lockVars, evVars, syncVars, regVars, xferVars, secVars, refVars,
  redVars, failVars, ownVars, stopVars, tokVars, finVars, zeroVars, stealVars, putVars,
  handlerVars, winLockVars, selfVars, unravelVars, atomicVars, abnormalVars>>
notRefVars == <<lockVars, evVars, syncVars, regVars, xferVars, secVars, byteVars,
  redVars, failVars, ownVars, stopVars, tokVars, finVars, zeroVars, stealVars, putVars,
  handlerVars, winLockVars, selfVars, unravelVars, atomicVars, abnormalVars>>
notRedVars == <<lockVars, evVars, syncVars, regVars, xferVars, secVars, byteVars,
  refVars, failVars, ownVars, stopVars, tokVars, finVars, zeroVars, stealVars, putVars,
  handlerVars, winLockVars, selfVars, unravelVars, atomicVars, abnormalVars>>
notFailVars == <<lockVars, evVars, syncVars, regVars, xferVars, secVars, byteVars,
  refVars, redVars, ownVars, stopVars, tokVars, finVars, zeroVars, stealVars, putVars,
  handlerVars, winLockVars, selfVars, unravelVars, atomicVars, abnormalVars>>
notOwnVars == <<lockVars, evVars, syncVars, regVars, xferVars, secVars, byteVars,
  refVars, redVars, failVars, stopVars, tokVars, finVars, zeroVars, stealVars, putVars,
  handlerVars, winLockVars, selfVars, unravelVars, atomicVars, abnormalVars>>
notStopVars == <<lockVars, evVars, syncVars, regVars, xferVars, secVars, byteVars,
  refVars, redVars, failVars, ownVars, tokVars, finVars, zeroVars, stealVars, putVars,
  handlerVars, winLockVars, selfVars, unravelVars, atomicVars, abnormalVars>>
notTokVars == <<lockVars, evVars, syncVars, regVars, xferVars, secVars, byteVars,
  refVars, redVars, failVars, ownVars, stopVars, finVars, zeroVars, stealVars, putVars,
  handlerVars, winLockVars, selfVars, unravelVars, atomicVars, abnormalVars>>
notFinVars == <<lockVars, evVars, syncVars, regVars, xferVars, secVars, byteVars,
  refVars, redVars, failVars, ownVars, stopVars, tokVars, zeroVars, stealVars, putVars,
  handlerVars, winLockVars, selfVars, unravelVars, atomicVars, abnormalVars>>
notZeroVars == <<lockVars, evVars, syncVars, regVars, xferVars, secVars, byteVars,
  refVars, redVars, failVars, ownVars, stopVars, tokVars, finVars, stealVars, putVars,
  handlerVars, winLockVars, selfVars, unravelVars, atomicVars, abnormalVars>>
notStealVars == <<lockVars, evVars, syncVars, regVars, xferVars, secVars, byteVars,
  refVars, redVars, failVars, ownVars, stopVars, tokVars, finVars, zeroVars, putVars,
  handlerVars, winLockVars, selfVars, unravelVars, atomicVars, abnormalVars>>
notPutVars == <<lockVars, evVars, syncVars, regVars, xferVars, secVars, byteVars,
  refVars, redVars, failVars, ownVars, stopVars, tokVars, finVars, zeroVars, stealVars,
  handlerVars, winLockVars, selfVars, unravelVars, atomicVars, abnormalVars>>
notHandlerVars == <<lockVars, evVars, syncVars, regVars, xferVars, secVars, byteVars,
  refVars, redVars, failVars, ownVars, stopVars, tokVars, finVars, zeroVars, stealVars,
  putVars, winLockVars, selfVars, unravelVars, atomicVars, abnormalVars>>
notWinLockVars == <<lockVars, evVars, syncVars, regVars, xferVars, secVars, byteVars,
  refVars, redVars, failVars, ownVars, stopVars, tokVars, finVars, zeroVars, stealVars,
  putVars, handlerVars, selfVars, unravelVars, atomicVars, abnormalVars>>
notSelfVars == <<lockVars, evVars, syncVars, regVars, xferVars, secVars, byteVars,
  refVars, redVars, failVars, ownVars, stopVars, tokVars, finVars, zeroVars, stealVars,
  putVars, handlerVars, winLockVars, unravelVars, atomicVars, abnormalVars>>
notUnravelVars == <<lockVars, evVars, syncVars, regVars, xferVars, secVars, byteVars,
  refVars, redVars, failVars, ownVars, stopVars, tokVars, finVars, zeroVars, stealVars,
  putVars, handlerVars, winLockVars, selfVars, atomicVars, abnormalVars>>
notAtomicVars == <<lockVars, evVars, syncVars, regVars, xferVars, secVars, byteVars,
  refVars, redVars, failVars, ownVars, stopVars, tokVars, finVars, zeroVars, stealVars,
  putVars, handlerVars, winLockVars, selfVars, unravelVars, abnormalVars>>
notAbnormalVars == <<lockVars, evVars, syncVars, regVars, xferVars, secVars, byteVars,
  refVars, redVars, failVars, ownVars, stopVars, tokVars, finVars, zeroVars, stealVars,
  putVars, handlerVars, winLockVars, selfVars, unravelVars, atomicVars>>

NoValue == 0 - 1

(***************************************************************************)
(*                       MUTEX LOCK / UNLOCK                               *)
(*                                                                         *)
(* One lock window with one slot on each hosting image.  A call addresses  *)
(* exactly one slot (displacement index * sizeof (int) on image_index), so *)
(* slots never interact.  Build: MPI_VERSION >= 3, no WITH_FAILED_IMAGES.  *)
(***************************************************************************)
LockImages == 3
LockHosts == 2
LImages == 1 .. LockImages
LHosts == 1 .. LockHosts

\* MPI_Compare_and_swap on one int of the window: the new content of the slot.
MPI_Compare_and_swap(cur, newval, compare) ==
  IF cur = compare THEN newval ELSE cur

\* A plausible slip: an unconditional replace instead of the compare-and-swap.
locking_atomic_op_replace(win, newval, compare, image_index) ==
  [win EXCEPT ![image_index] = newval]

\* locking_atomic_op: the window after the operation (value is the old slot).
locking_atomic_op(win, newval, compare, image_index) ==
  [win EXCEPT ![image_index] = MPI_Compare_and_swap(@, newval, compare)]

\* A plausible slip: a retry loop that is never left.
lock_loop_exit_never(value) == FALSE

\* A plausible slip: leaving the retry loop whatever the swap returned.
lock_loop_exit_always(value) == TRUE

\* The retry loop `while (value != 0)` is left once the swap returned 0.
lock_loop_exit(value) == value = 0

\* mutex_lock: const char msg[] = "Already locked".
msg == <<"A", "l", "r", "e", "a", "d", "y", " ", "l", "o", "c", "k", "e", "d">>

\* The errmsg arguments of a call: no buffer (errmsg == NULL), or a buffer of
\* errmsg_len characters with whatever the caller left in it.
ErrPad == 2
ErrLens == {0, 1, Len(msg) - 1, Len(msg), Len(msg) + ErrPad}
ErrArgs ==
  {[null |-> TRUE, buf |-> <<>>]}
    \cup {[null |-> FALSE, buf |-> [k \in 1 .. n |-> "?"]] : n \in ErrLens}

NoErrmsg == [null |-> TRUE, buf |-> <<>>]

MIN(a, b) == IF a < b THEN a ELSE b

\* memset / memcpy on the first n characters of a buffer.
memset(buf, c, n) == [k \in DOMAIN buf |-> IF k <= n THEN c ELSE buf[k]]

memcpy(buf, from, n) == [k \in DOMAIN buf |-> IF k <= n THEN from[k] ELSE buf[k]]

\* mutex_lock, label stat_error: the errmsg buffer after it (errmsg_len is the
\* length of the buffer).
stat_error(errmsg) ==
  IF errmsg.null
  THEN errmsg
  ELSE [errmsg EXCEPT
          !.buf = memcpy(memset(@, " ", Len(@)), msg, MIN(Len(@), Len(msg)))]

\* A plausible slip: the test without the condition on the hosting image.
already_locked_any_host(value, this_image, image_index) == value = this_image

\* A plausible slip: no test for a slot the caller holds already.
already_locked_never(value, this_image, image_index) == FALSE

\* mutex_lock: the test that sends the call to stat_error.
already_locked(value, this_image, image_index) ==
  value = this_image /\ image_index = this_image

\* PREFIX (lock) / PREFIX (unlock): image_index 0 addresses the calling image.
dest_img(this_image, image_index) ==
  IF image_index = 0 THEN this_image ELSE image_index

\* What a returning call leaves with its caller.  how is one of
\*   "locked"      blocking lock returned at once, stat = 0
\*   "locked_spun" blocking lock returned from the retry loop, stat = 0
\*   "try_1"       acquired_lock = 1, stat = 0
\*   "try_0"       acquired_lock = 0, stat = 0
\*   "stat_99"     stat = 99, errmsg "Already locked"
\*   "unlocked"    unlock returned, stat = 0
\* l_errmsg is what the call wrote into its errmsg argument: nothing on these
\* paths.
LockReturn(i, h, how) ==
  /\ l_last' = [img |-> i, slot |-> h, how |-> how]
  /\ l_errmsg' = NoErrmsg

\* History: image i now counts as holder of slot h.
LockAcquire(i, h) == holds' = [holds EXCEPT ![i] = @ \cup {h}]

\* terminate_internal as far as the lock subsystem sees it: the image exits and
\* MPI_Abort takes the other images down.
LockTerminate(i) ==
  /\ lpc' = [lpc EXCEPT ![i] = "exited"]
  /\ l_aborted' = TRUE

\* mutex_lock up to its first return or to the entry of the retry loop.
mutex_lock(i, image_index, hasStat, try) ==
  LET h == dest_img(i, image_index)
      value == lock_win[h]
  IN
  /\ ~l_aborted
  /\ lpc[i] = "idle"
  /\ lock_win' = locking_atomic_op(lock_win, i, 0, h)
  /\ IF already_locked(value, i, h)
     THEN \* stat_error
          /\ \E errmsg \in ErrArgs : l_errmsg' = stat_error(errmsg)
          /\ UNCHANGED <<holds, l_image_index>>
          /\ IF hasStat
             THEN /\ l_last' = [img |-> i, slot |-> h, how |-> "stat_99"]
                  /\ UNCHANGED <<lpc, l_aborted>>
             ELSE /\ UNCHANGED l_last
                  /\ LockTerminate(i)
     ELSE /\ UNCHANGED l_aborted
          /\ IF try
             THEN /\ LockReturn(i, h, IF value = 0 THEN "try_1" ELSE "try_0")
                  /\ UNCHANGED <<lpc, l_image_index>>
                  /\ IF value = 0 THEN LockAcquire(i, h) ELSE UNCHANGED holds
             ELSE IF lock_loop_exit(value)
                  THEN /\ LockReturn(i, h, "locked")
                       /\ LockAcquire(i, h)
                       /\ UNCHANGED <<lpc, l_image_index>>
                  ELSE /\ lpc' = [lpc EXCEPT ![i] = "spin"]
                       /\ l_image_index' = [l_image_index EXCEPT ![i] = h]
                       /\ UNCHANGED <<holds, l_last, l_errmsg>>

\* One turn of the retry loop of mutex_lock.
mutex_lock_retry(i) ==
  LET h == l_image_index[i]
      value == lock_win[h]
  IN
  /\ ~l_aborted
  /\ lpc[i] = "spin"
  /\ lock_win' = locking_atomic_op(lock_win, i, 0, h)
  /\ UNCHANGED l_aborted
  /\ IF lock_loop_exit(value)
     THEN /\ lpc' = [lpc EXCEPT ![i] = "idle"]
          /\ l_image_index' = [l_image_index EXCEPT ![i] = 0]
          /\ LockReturn(i, h, "locked_spun")
          /\ LockAcquire(i, h)
     ELSE UNCHANGED <<lpc, l_image_index, holds, l_last, l_errmsg>>

\* A plausible slip: an operation that leaves the slot as it is.
MPI_NO_OP(cur, newval) == cur

\* MPI_Fetch_and_op with MPI_REPLACE: the new content of the slot.
MPI_REPLACE(cur, newval) == newval

\* mutex_unlock: MPI_Fetch_and_op (MPI_REPLACE) with 0; stat = ierr = 0.
mutex_unlock(i, image_index, hasStat) ==
  LET h == dest_img(i, image_index) IN
  /\ ~l_aborted
  /\ lpc[i] = "idle"
  /\ lock_win' = [lock_win EXCEPT ![h] = MPI_REPLACE(@, 0)]
  /\ LockReturn(i, h, "unlocked")
  /\ holds' = [holds EXCEPT ![i] = @ \ {h}]
  /\ UNCHANGED <<lpc, l_image_index, l_aborted>>

LockIdle ==
  /\ lock_win = [h \in LHosts |-> 0]
  /\ lpc = [i \in LImages |-> "idle"]
  /\ l_image_index = [i \in LImages |-> 0]
  /\ l_last = [img |-> 0, slot |-> 0, how |-> "none"]
  /\ l_errmsg = NoErrmsg
  /\ holds = [i \in LImages |-> {}]
  /\ l_aborted = FALSE

LockInit == LockIdle

\* The image_index arguments by which image i addresses a hosted slot.
LockTargets(i) == {x \in 0 .. LockImages : dest_img(i, x) \in LHosts}

\* Unlock is issued only by an image that holds the slot.
LockNext ==
  \/ \E i \in LImages, hasStat \in BOOLEAN, try \in BOOLEAN :
       \E image_index \in LockTargets(i) :
          mutex_lock(i, image_index, hasStat, try) /\ UNCHANGED notLockVars
  \/ \E i \in LImages : mutex_lock_retry(i) /\ UNCHANGED notLockVars
  \/ \E i \in LImages, hasStat \in BOOLEAN :
       \E image_index \in LockTargets(i) :
          /\ dest_img(i, image_index) \in holds[i]
          /\ mutex_unlock(i, image_index, hasStat)
          /\ UNCHANGED notLockVars

Holders(h) == {i \in LImages : h \in holds[i]}

\* C1: mutex exclusion.  In every reachable state (no image failure, unlock
\* only by the holder) at most one image has returned successfully from lock on
\* a slot without having unlocked it since, the slot then holds exactly that
\* image's index, and a slot only ever holds 0 or the index of one image.
C1_MutexExclusion ==
  \A h \in LHosts :
    /\ lock_win[h] \in 0 .. LockImages
    /\ Cardinality(Holders(h)) <= 1
    /\ \A i \in Holders(h) : lock_win[h] = i

\* C1 witness: image 2 holds the slot on image 1 while image 3 spins on it.
C1_Witness ==
  /\ 1 \in holds[2]
  /\ lpc[3] = "spin" /\ l_image_index[3] = 1
  /\ lock_win[1] = 2

\* C2: lock hand-over ordering.  A lock call returns as holder of a slot only in
\* a step that finds the slot 0 (the previous holder's unlock has taken effect)
\* and leaves it with the caller's index, and the slot never changes from one
\* nonzero holder directly to a different nonzero holder.
C2_HandOver ==
  [][\A h \in LHosts :
       /\ (lock_win[h] # 0 /\ lock_win'[h] # 0) => lock_win'[h] = lock_win[h]
       /\ \A i \in LImages :
            (h \in holds'[i] /\ h \notin holds[i]) =>
               (lock_win[h] = 0 /\ lock_win'[h] = i)]_vars

\* C2 witness: image 3 has come out of its retry loop as holder of the slot on
\* image 1 (it had found the slot taken when it called lock).
C2_Witness ==
  /\ l_last = [img |-> 3, slot |-> 1, how |-> "locked_spun"]
  /\ lock_win[1] = 3
  /\ 1 \in holds[3]

\* The message as Fortran stores it in a CHARACTER(n): cut to n characters or
\* followed by spaces up to n.
PaddedMsg(n) == [k \in 1 .. n |-> IF k <= Len(msg) THEN msg[k] ELSE " "]

\* C18: mutex self-deadlock detection.  A lock call (blocking or with
\* acquired_lock) of image i on the slot hosted on image i, made while that slot
\* holds i, never enters the retry loop and leaves the slot as it was; with stat
\* it returns in the same step with stat = 99 and, if errmsg is present, errmsg
\* holding "Already locked" followed by spaces up to errmsg_len (its leading
\* errmsg_len characters if the buffer is shorter); without stat the image
\* terminates.
C18_SelfDeadlock ==
  [][\A i \in LImages \cap LHosts :
       (lock_win[i] = i /\ lpc[i] = "idle" /\ ~l_aborted) =>
       \A image_index \in {0, i}, hasStat \in BOOLEAN, try \in BOOLEAN :
         mutex_lock(i, image_index, hasStat, try) =>
            /\ lock_win' = lock_win
            /\ holds' = holds
            /\ lpc'[i] # "spin"
            /\ \E errmsg \in ErrArgs :
                 l_errmsg' = IF errmsg.null
                             THEN errmsg
                             ELSE [null |-> FALSE, buf |-> PaddedMsg(Len(errmsg.buf))]
            /\ IF hasStat
               THEN /\ lpc'[i] = "idle"
                    /\ l_last' = [img |-> i, slot |-> i, how |-> "stat_99"]
               ELSE lpc'[i] = "exited"]_vars

\* C18 witness: image 1, holding its own slot, has called lock on it again with
\* a 16-character errmsg and has got stat = 99 and the padded message back.
C18_Witness ==
  /\ l_last = [img |-> 1, slot |-> 1, how |-> "stat_99"]
  /\ lock_win[1] = 1
  /\ 1 \in holds[1]
  /\ lpc[1] = "idle"
  /\ ~l_errmsg.null
  /\ Len(l_errmsg.buf) = Len(msg) + ErrPad
  /\ SubSeq(l_errmsg.buf, 1, Len(msg)) = msg
  /\ \A k \in Len(msg) + 1 .. Len(l_errmsg.buf) : l_errmsg.buf[k] = " "

\* What a call of lock with acquired_lock on slot h by image i, on a slot
\* holding value, leaves: one compare-and-swap, the answer, no retry loop.
TryLockAnswer(i, h, value) ==
  /\ lpc'[i] = "idle"
  /\ ~l_aborted'
  /\ lock_win' = [lock_win EXCEPT ![h] = IF value = 0 THEN i ELSE value]
  /\ l_last' = [img |-> i, slot |-> h, how |-> IF value = 0 THEN "try_1" ELSE "try_0"]
  /\ holds' = [holds EXCEPT ![i] = IF value = 0 THEN @ \cup {h} ELSE @]

\* C27: try-lock.  Every call of lock with acquired_lock makes one
\* compare-and-swap 0 -> this_image and returns without spinning, with
\* acquired_lock 1 and the slot holding the caller's index if the slot was 0,
\* and with acquired_lock 0 and the slot unchanged otherwise.
C27_TryLock ==
  [][\A i \in LImages :
       (lpc[i] = "idle" /\ ~l_aborted) =>
         \A image_index \in LockTargets(i), hasStat \in BOOLEAN :
           mutex_lock(i, image_index, hasStat, TRUE) =>
             TryLockAnswer(i, dest_img(i, image_index), lock_win[dest_img(i, image_index)])]_vars

\* C27 as the code has it: the same, except for a slot on the calling image
\* that holds the caller's index already; that call ends in stat_error and
\* does not write acquired_lock.
C27_TryLockAmended ==
  [][\A i \in LImages :
       (lpc[i] = "idle" /\ ~l_aborted) =>
         \A image_index \in LockTargets(i), hasStat \in BOOLEAN :
           mutex_lock(i, image_index, hasStat, TRUE) =>
             IF already_locked(lock_win[dest_img(i, image_index)], i, dest_img(i, image_index))
             THEN /\ lock_win' = lock_win
                  /\ holds' = holds
                  /\ IF hasStat
                     THEN l_last' = [img |-> i, slot |-> i, how |-> "stat_99"]
                     ELSE lpc'[i] = "exited" /\ l_last' = l_last
             ELSE TryLockAnswer(i, dest_img(i, image_index),
                                lock_win[dest_img(i, image_index)])]_vars

\* C27 witness: image 3 has tried the slot on image 2 while image 1 holds it,
\* and has got acquired_lock = 0.
C27_Witness ==
  /\ l_last = [img |-> 3, slot |-> 2, how |-> "try_0"]
  /\ lock_win[2] = 1
  /\ 2 \in holds[1]
  /\ 2 \notin holds[3]

\* The lock subsystem with unlock called by any image on any slot.
LockAnyNext ==
  \/ \E i \in LImages, hasStat \in BOOLEAN, try \in BOOLEAN :
       \E image_index \in LockTargets(i) :
          mutex_lock(i, image_index, hasStat, try) /\ UNCHANGED notLockVars
  \/ \E i \in LImages : mutex_lock_retry(i) /\ UNCHANGED notLockVars
  \/ \E i \in LImages, hasStat \in BOOLEAN :
       \E image_index \in LockTargets(i) :
          mutex_unlock(i, image_index, hasStat) /\ UNCHANGED notLockVars

\* C28: unlock is unconditional.  Every unlock, whatever the slot holds and
\* whoever holds it, leaves the slot 0 and returns with stat = 0 and no error
\* message; no unlock ends the image.
C28_UnlockUnconditional ==
  [][\A i \in LImages :
       (lpc[i] = "idle" /\ ~l_aborted) =>
         \A image_index \in LockTargets(i), hasStat \in BOOLEAN :
           mutex_unlock(i, image_index, hasStat) =>
             /\ lock_win'[dest_img(i, image_index)] = 0
             /\ \A h \in LHosts \ {dest_img(i, image_index)} : lock_win'[h] = lock_win[h]
             /\ l_last' = [img |-> i, slot |-> dest_img(i, image_index), how |-> "unlocked"]
             /\ l_errmsg' = NoErrmsg
             /\ lpc' = lpc
             /\ ~l_aborted']_vars

\* C28 witness: image 3 has unlocked the slot on image 1 that image 2 held,
\* image 1 has then locked it, and images 1 and 2 both count as holders.
C28_Witness ==
  /\ l_last = [img |-> 1, slot |-> 1, how |-> "locked"]
  /\ lock_win[1] = 1
  /\ 1 \in holds[1]
  /\ 1 \in holds[2]
  /\ 1 \notin holds[3]

\* One holder and one waiter: images 1 and 2 lock (with stat) and unlock the
\* slots on the hosting images, unlock by the holder only.
PairImages == {1, 2}

LockPairNext ==
  \/ \E i \in PairImages, try \in BOOLEAN :
       \E image_index \in LockTargets(i) :
          mutex_lock(i, image_index, TRUE, try) /\ UNCHANGED notLockVars
  \/ \E i \in PairImages : mutex_lock_retry(i) /\ UNCHANGED notLockVars
  \/ \E i \in PairImages :
       \E image_index \in LockTargets(i) :
          /\ dest_img(i, image_index) \in holds[i]
          /\ mutex_unlock(i, image_index, TRUE)
          /\ UNCHANGED notLockVars

\* Image w waits in the retry loop on the slot of image h and the slot is
\* free: the holder's unlock has taken effect.
WaitsOnFree(w, h) == lpc[w] = "spin" /\ l_image_index[w] = h /\ lock_win[h] = 0

\* Image w has returned from its retry loop, stat 0, the slot holding w.
ReturnedHolder(w, h) ==
  /\ l_last = [img |-> w, slot |-> h, how |-> "locked_spun"]
  /\ lock_win[h] = w
  /\ lpc[w] = "idle"

\* C30: lock liveness.  Whenever an image waits in lock on a slot and the
\* holder has unlocked it, the waiter's call eventually returns with the slot
\* holding the waiter's index.
C30_LockLiveness ==
  \A w \in PairImages, h \in LHosts : WaitsOnFree(w, h) ~> ReturnedHolder(w, h)

\* C30 as the code has it: the waiter's call eventually returns unless the
\* other image has taken the slot again before the waiter's next
\* compare-and-swap.
C30_LockLivenessAmended ==
  \A w \in PairImages, h \in LHosts :
    WaitsOnFree(w, h) ~> (ReturnedHolder(w, h) \/ lock_win[h] \in PairImages \ {w})

\* C30 witness: image 2, which waited while image 1 held the slot on image 1,
\* has come out of its loop as holder after image 1's unlock.
C30_Witness ==
  /\ ReturnedHolder(2, 1)
  /\ 1 \in holds[2]
  /\ holds[1] = {}
  /\ lpc[1] = "idle"

\* Image i holds the slot on another image h: it has locked it and the slot
\* holds its index.
HoldsRemote(i, h) == h # i /\ h \in holds[i] /\ lock_win[h] = i

\* C31: re-locking a remote slot.  A blocking lock by image i on a slot of
\* another image that i holds already does not return with stat = 99, writes
\* no message and ends no image: the call enters the retry loop.  A call in
\* the retry loop returns only in a step that finds the slot 0, so only after
\* some image has reset the slot, and it never returns with stat = 99.
C31_RemoteRelock ==
  [][\A i \in LImages :
       /\ \A image_index \in LockTargets(i), hasStat \in BOOLEAN :
            (/\ HoldsRemote(i, dest_img(i, image_index))
             /\ mutex_lock(i, image_index, hasStat, FALSE)) =>
               /\ lpc'[i] = "spin"
               /\ l_image_index'[i] = dest_img(i, image_index)
               /\ lock_win' = lock_win
               /\ l_last' = l_last
               /\ l_errmsg' = l_errmsg
               /\ ~l_aborted'
       /\ (lpc[i] = "spin" /\ lpc'[i] # "spin") =>
            /\ lock_win[l_image_index[i]] = 0
            /\ l_last' = [img |-> i, slot |-> l_image_index[i], how |-> "locked_spun"]
            /\ lock_win'[l_image_index[i]] = i]_vars

\* C31 witness: image 2, holder of the slot on image 1, has called lock on it
\* again and is in the retry loop; the slot still holds 2.
C31_Witness ==
  /\ HoldsRemote(2, 1)
  /\ lpc[2] = "spin"
  /\ l_image_index[2] = 1

\* C31, the way out: image 2 has come out of the retry loop of its second
\* lock on the slot of image 1 after image 3 had reset the slot.
RelockReturned ==
  /\ l_last = [img |-> 2, slot |-> 1, how |-> "locked_spun"]
  /\ HoldsRemote(2, 1)
  /\ holds[1] = {} /\ holds[3] = {}
  /\ lpc = [i \in LImages |-> "idle"]

(***************************************************************************)
(*                              EVENTS                                     *)
(*                                                                         *)
(* One event window; the counter observed is the slot on each image of     *)
(* EHosts.  event_wait always addresses the calling image's own slot.      *)
(***************************************************************************)
EvImages == 4
MaxPosts == 1
MaxWaits == 2
MaxUntil == 3
EImages == 1 .. EvImages
EHosts == {1}

\* image_index 0 addresses the calling image (event_post, event_query).
event_image(this_image, image_index) ==
  IF image_index = 0 THEN this_image ELSE image_index

\* A plausible slip: subtracting what was read instead of until_count.
event_wait_newval_count(until_count, count) == 0 - count

\* event_wait: newval = -until_count, the operand of the MPI_SUM fetch-and-op.
event_wait_newval(until_count, count) == 0 - until_count

\* event_wait: the loops are left once count >= until_count.
event_wait_reached(count, until_count) == count >= until_count

\* A plausible slip: a fetch-and-op that adds one instead of MPI_NO_OP.
event_query_op_sum(cur) == cur + 1

\* event_query: MPI_Fetch_and_op with MPI_NO_OP leaves the target as it is.
event_query_op(cur) == cur

\* event_post: MPI_Accumulate (MPI_SUM) of 1 on the target's counter.
event_post(i, image_index) ==
  LET h == event_image(i, image_index) IN
  /\ epc[i] = "idle"
  /\ e_posts_left[i] > 0
  /\ e_posts_left' = [e_posts_left EXCEPT ![i] = @ - 1]
  /\ ev_win' = [ev_win EXCEPT ![h] = @ + 1]
  /\ ev_posted' = [ev_posted EXCEPT ![h] = @ + 1]
  /\ UNCHANGED <<epc, e_until, e_count, e_query, e_waits_left, e_until_set,
                 ev_consumed, e_observed>>

\* event_wait from its entry through the first read of var[index].
event_wait(i, until_count) ==
  LET count == ev_win[i] IN
  /\ epc[i] = "idle"
  /\ e_waits_left[i] > 0
  /\ e_waits_left' = [e_waits_left EXCEPT ![i] = @ - 1]
  /\ e_until' = [e_until EXCEPT ![i] = until_count]
  /\ e_count' = [e_count EXCEPT ![i] = count]
  /\ epc' = [epc EXCEPT ![i] = IF event_wait_reached(count, until_count)
                                THEN "sub" ELSE "spin"]
  /\ UNCHANGED <<ev_win, e_query, e_posts_left, e_until_set, ev_posted,
                 ev_consumed, e_observed>>

\* One more turn of the spin loops: MPI_Win_sync, count = var[index].
event_wait_spin(i) ==
  LET count == ev_win[i] IN
  /\ epc[i] = "spin"
  /\ e_count' = [e_count EXCEPT ![i] = count]
  /\ epc' = [epc EXCEPT ![i] = IF event_wait_reached(count, e_until[i])
                                THEN "sub" ELSE "spin"]
  /\ UNCHANGED <<ev_win, e_until, e_query, e_posts_left, e_waits_left,
                 e_until_set, ev_posted, ev_consumed, e_observed>>

\* The fetch-and-op that ends event_wait, and its return.
event_wait_sub(i) ==
  /\ epc[i] = "sub"
  /\ ev_win' = [ev_win EXCEPT ![i] = @ + event_wait_newval(e_until[i], e_count[i])]
  /\ ev_consumed' = [ev_consumed EXCEPT ![i] = @ + e_until[i]]
  /\ e_observed' = e_count[i]
  /\ epc' = [epc EXCEPT ![i] = "idle"]
  /\ e_until' = [e_until EXCEPT ![i] = 0]
  /\ e_count' = [e_count EXCEPT ![i] = 0]
  /\ UNCHANGED <<e_query, e_posts_left, e_waits_left, e_until_set, ev_posted>>

\* event_query: fetches the counter of the addressed image.
event_query(i, image_index) ==
  LET h == event_image(i, image_index) IN
  /\ epc[i] = "idle"
  /\ ev_win' = [ev_win EXCEPT ![h] = event_query_op(@)]
  /\ e_query' = [count |-> ev_win[h], waited |-> e_observed # NoValue]
  /\ UNCHANGED <<epc, e_until, e_count, e_posts_left, e_waits_left, e_until_set,
                 ev_posted, ev_consumed, e_observed>>

EvIdle ==
  /\ ev_win = [h \in EHosts |-> 0]
  /\ epc = [i \in EImages |-> "idle"]
  /\ e_until = [i \in EHosts |-> 0]
  /\ e_count = [i \in EHosts |-> 0]
  /\ e_query = [count |-> NoValue, waited |-> FALSE]
  /\ e_posts_left = [i \in EImages |-> 0]
  /\ e_waits_left = [i \in EHosts |-> 0]
  /\ e_until_set = {}
  /\ ev_posted = [h \in EHosts |-> 0]
  /\ ev_consumed = [h \in EHosts |-> 0]
  /\ e_observed = NoValue

\* Any image posts up to MaxPosts times, the hosting image waits up to MaxWaits
\* times with any until_count of 1 .. MaxUntil.
EventInit ==
  /\ ev_win = [h \in EHosts |-> 0]
  /\ epc = [i \in EImages |-> "idle"]
  /\ e_until = [i \in EHosts |-> 0]
  /\ e_count = [i \in EHosts |-> 0]
  /\ e_query = [count |-> NoValue, waited |-> FALSE]
  /\ e_posts_left = [i \in EImages |-> MaxPosts]
  /\ e_waits_left = [i \in EHosts |-> MaxWaits]
  /\ e_until_set = 1 .. MaxUntil
  /\ ev_posted = [h \in EHosts |-> 0]
  /\ ev_consumed = [h \in EHosts |-> 0]
  /\ e_observed = NoValue

\* Scenario S4: image 1 waits once with until_count = number of peers, and each
\* peer posts once to image 1.
EventS4Init ==
  /\ ev_win = [h \in EHosts |-> 0]
  /\ epc = [i \in EImages |-> "idle"]
  /\ e_until = [i \in EHosts |-> 0]
  /\ e_count = [i \in EHosts |-> 0]
  /\ e_query = [count |-> NoValue, waited |-> FALSE]
  /\ e_posts_left = [i \in EImages |-> IF i = 1 THEN 0 ELSE 1]
  /\ e_waits_left = [i \in EHosts |-> 1]
  /\ e_until_set = {EvImages - 1}
  /\ ev_posted = [h \in EHosts |-> 0]
  /\ ev_consumed = [h \in EHosts |-> 0]
  /\ e_observed = NoValue

\* The image_index arguments by which image i addresses a hosted counter.
EventTargets(i) == {x \in 0 .. EvImages : event_image(i, x) \in EHosts}

\* The steps of image i.
EventStep(i) ==
  \/ \E image_index \in EventTargets(i) :
       event_post(i, image_index) /\ UNCHANGED notEvVars
  \/ \E until_count \in e_until_set :
       i \in EHosts /\ event_wait(i, until_count) /\ UNCHANGED notEvVars
  \/ i \in EHosts /\ event_wait_spin(i) /\ UNCHANGED notEvVars
  \/ i \in EHosts /\ event_wait_sub(i) /\ UNCHANGED notEvVars

EventNext ==
  \/ \E i \in EImages : EventStep(i)
  \/ \E i \in EImages : \E image_index \in EventTargets(i) :
       event_query(i, image_index) /\ UNCHANGED notEvVars

\* C3: event counting.  With posts from any peers in any interleaving and the
\* one waiter of a slot calling event_wait (until_count = K), the wait leaves
\* its loops only having observed count >= K, it reduces the counter by exactly
\* K and no post is lost: the counter equals the posts applied minus K summed
\* over the completed waits, and it is never negative.
C3_EventCounting ==
  \A h \in EHosts :
    /\ ev_win[h] = ev_posted[h] - ev_consumed[h]
    /\ ev_win[h] >= 0
    /\ epc[h] = "sub" => (e_count[h] >= e_until[h] /\ ev_win[h] >= e_until[h])

\* C3 witness: two waits have completed on image 1 and a post is still counted.
C3_Witness ==
  /\ ev_consumed[1] >= 3
  /\ e_waits_left[1] = 0 /\ epc[1] = "idle"
  /\ ev_win[1] = 1

\* C4: event liveness, scenario S4.  Image 1 waits with until_count = 3 and the
\* images 2, 3 and 4 each post once: the wait eventually returns; from then on
\* the counter is 0, and an event_query issued afterwards delivers 0 and leaves
\* the counter as it is.
C4_EventLiveness ==
  /\ <>(e_observed # NoValue)
  /\ [](e_observed # NoValue =>
          /\ ev_win[1] = 0
          /\ e_query.waited => e_query.count = 0)

\* C4 witness: the wait has returned having seen all the posts, and a query
\* issued after it has delivered 0.
C4_Witness ==
  /\ e_observed = EvImages - 1
  /\ e_query = [count |-> 0, waited |-> TRUE]
  /\ ev_posted[1] = EvImages - 1

(***************************************************************************)
(*                   SYNC IMAGES, STOP AND FINALIZE                        *)
(*                                                                         *)
(* Messages with the tag MPI_TAG_CAF_SYNC_IMAGES on CAF_COMM_WORLD: one    *)
(* FIFO per ordered pair of images (MPI's non-overtaking rule).  A receive *)
(* posted by sync_images for a source matches the oldest unmatched message *)
(* of that source; receives of an earlier call that were left pending      *)
(* match before those of the current call.  MPI_Send either buffers the    *)
(* message and returns or returns only once the message is matched; which  *)
(* of the two the MPI library does for these one-integer messages is       *)
(* chosen in the initial state.                                            *)
(* Modelled for the build without WITH_FAILED_IMAGES.                      *)
(***************************************************************************)
SyncImages == 2
MaxLen == 2
MaxCalls == 2
SImages == 1 .. SyncImages

ImageLists == UNION {[1 .. n -> SImages] : n \in 0 .. MaxLen}

\* How a call can report an error: through stat, through errmsg only
\* (stat == NULL, errmsg_len > 0), or not at all.
Reports == {"stat", "errmsg", "none"}

\* The arguments of sync_images; count = -1 is the form "all other images".
SyncArgs ==
  {[count |-> Len(l), images |-> l, report |-> r] : l \in ImageLists, r \in Reports}
    \cup {[count |-> 0 - 1, images |-> <<>>, report |-> r] : r \in Reports}

NoArgs == [count |-> 0, images |-> <<>>, report |-> "none"]

NoLast == [img |-> 0, count |-> 0, images |-> <<>>, report |-> "none", stat |-> NoValue]

Range(s) == {s[k] : k \in 1 .. Len(s)}

\* init: images_full lists every image but this one, ascending.
images_full(this_image) ==
  [k \in 1 .. SyncImages - 1 |-> IF k < this_image THEN k ELSE k + 1]

\* sync_images_internal: the early return.
sync_early(count, images, this_image) ==
  count = 0 \/ (count = 1 /\ images[1] = this_image)

\* A plausible slip: no duplicate check.
has_dup_never(count, images) == FALSE

\* sync_images_internal: the duplicate check over images[0 .. count-1].
has_dup(count, images) ==
  \E i \in 1 .. count : \E j \in 1 .. count : j < i /\ images[i] = images[j]

\* The list and count in effect after `count == -1` has been replaced.
eff_images(this_image, args) ==
  IF args.count = 0 - 1 THEN images_full(this_image) ELSE args.images

eff_count(this_image, args) == Len(eff_images(this_image, args))

\* A plausible slip: a loop that never sees its last completion.
sync_wait_more_le(done_count, count) == done_count <= count

\* A plausible slip: a loop that ends one completion early.
sync_wait_more_early(done_count, count) == done_count + 1 < count

\* sync_images_internal: `while (done_count < count)`.
sync_wait_more(done_count, count) == done_count < count

\* The return of sync_images_internal through sync_images_err_chk: stat is
\* written if present; an error with neither stat nor errmsg ends in
\* caf_runtime_error, which exits.
SyncReturn(i, args, ierr) ==
  /\ s_last' = [img |-> i,
                count |-> args.count, images |-> args.images, report |-> args.report,
                stat |-> IF args.report = "stat" THEN ierr ELSE NoValue]
  /\ spc' = [spc EXCEPT ![i] = IF ierr # 0 /\ args.report = "none"
                                THEN "exited" ELSE "idle"]
  /\ s_args' = [s_args EXCEPT ![i] = NoArgs]
  /\ s_idx' = [s_idx EXCEPT ![i] = 0]
  /\ s_done_count' = [s_done_count EXCEPT ![i] = 0]

\* History: image i has entered a sync naming every image of Range(images).
SyncStarted(i, images) ==
  s_started' = [s_started EXCEPT ![i] =
                  [b \in SImages |-> IF b \in Range(images) THEN @[b] + 1 ELSE @[b]]]

\* History: a sync of image i naming every image of Range(images) gave stat 0.
SyncPassed(i, images) ==
  s_passed' = [s_passed EXCEPT ![i] =
                 [b \in SImages |-> IF b \in Range(images) THEN @[b] + 1 ELSE @[b]]]

\* sync_images from its entry up to and including the MPI_Irecv loop.
sync_images(i, args) ==
  LET images == eff_images(i, args) IN
  /\ spc[i] = "idle"
  /\ s_calls_left[i] > 0
  /\ args \in s_plan[i]
  /\ s_calls_left' = [s_calls_left EXCEPT ![i] = @ - 1]
  /\ UNCHANGED <<chan, s_stale, arrived, s_blocked, caf_is_finalized, s_plan, s_may_stop,
                 s_rendezvous>>
  /\ IF sync_early(args.count, args.images, i)
     THEN /\ SyncReturn(i, args, 0)
          /\ SyncStarted(i, args.images)
          /\ SyncPassed(i, args.images)
          /\ UNCHANGED s_req
     ELSE IF has_dup(args.count, args.images)
     THEN /\ SyncReturn(i, args, STAT_DUP_SYNC_IMAGES)
          /\ UNCHANGED <<s_req, s_started, s_passed>>
     ELSE IF caf_is_finalized[i]
     THEN /\ SyncReturn(i, args, STAT_STOPPED_IMAGE)
          /\ UNCHANGED <<s_req, s_started, s_passed>>
     ELSE /\ s_req' = [s_req EXCEPT ![i] =
                         [src \in SImages |-> IF src \in Range(images)
                                              THEN "pending" ELSE @[src]]]
          /\ spc' = [spc EXCEPT ![i] = "send"]
          /\ s_args' = [s_args EXCEPT ![i] = args]
          /\ s_idx' = [s_idx EXCEPT ![i] = 0]
          /\ s_done_count' = [s_done_count EXCEPT ![i] = 0]
          /\ SyncStarted(i, images)
          /\ s_last' = NoLast
          /\ UNCHANGED s_passed

\* The destinations of the send loop image i is in.
SendList(i) ==
  IF spc[i] = "send" THEN eff_images(i, s_args[i]) ELSE images_full(i)

\* The integer image i is sending: int_zero in sync_images, img_status in
\* finalize_internal.
SendValue(i) == IF spc[i] = "send" THEN 0 ELSE STAT_STOPPED_IMAGE

\* One MPI_Send of a send loop has returned: on to the next, or past the loop.
SendAdvance(i) ==
  LET n == s_idx[i] + 1 IN
  /\ s_idx' = [s_idx EXCEPT ![i] = IF n = Len(SendList(i)) THEN 0 ELSE n]
  /\ spc' = [spc EXCEPT ![i] =
               IF n < Len(SendList(i)) THEN @
               ELSE IF @ = "send" THEN "wait"
               ELSE IF @ = "announce_fin" THEN "barrier"
               ELSE "abort"]

\* MPI_Send of the loops at 4018-4020 and 869-871.
MPI_Send(i, blocking) ==
  LET dst == SendList(i)[s_idx[i] + 1] IN
  /\ spc[i] \in {"send", "announce_fin", "announce_stop"}
  /\ ~s_blocked[i]
  /\ blocking = s_rendezvous
  /\ s_last' = NoLast
  /\ chan' = [chan EXCEPT ![i][dst] = Append(@, SendValue(i))]
  /\ IF blocking
     THEN /\ s_blocked' = [s_blocked EXCEPT ![i] = TRUE]
          /\ UNCHANGED <<spc, s_idx>>
     ELSE /\ SendAdvance(i)
          /\ UNCHANGED s_blocked
  /\ UNCHANGED <<s_args, s_done_count, s_req, s_stale, arrived, caf_is_finalized,
                 s_calls_left, s_plan, s_may_stop, s_rendezvous, s_started, s_passed>>

\* A blocked MPI_Send returns once its message has been matched.
MPI_Send_matched(i) ==
  LET dst == SendList(i)[s_idx[i] + 1] IN
  /\ spc[i] \in {"send", "announce_fin", "announce_stop"}
  /\ s_blocked[i]
  /\ chan[i][dst] = <<>>
  /\ s_blocked' = [s_blocked EXCEPT ![i] = FALSE]
  /\ SendAdvance(i)
  /\ s_last' = NoLast
  /\ UNCHANGED <<chan, s_args, s_done_count, s_req, s_stale, arrived,
                 caf_is_finalized, s_calls_left, s_plan, s_may_stop, s_rendezvous, s_started, s_passed>>

\* MPI matches the oldest message from src with the oldest receive dst has
\* posted for src and stores it in arrived[src].
MPI_Match(src, dst) ==
  /\ spc[dst] \notin {"exited", "killed", "stopped"}
  /\ chan[src][dst] # <<>>
  /\ s_stale[dst][src] > 0 \/ s_req[dst][src] = "pending"
  /\ chan' = [chan EXCEPT ![src][dst] = Tail(@)]
  /\ s_last' = NoLast
  /\ arrived' = [arrived EXCEPT ![dst][src] = Head(chan[src][dst])]
  /\ IF s_stale[dst][src] > 0
     THEN /\ s_stale' = [s_stale EXCEPT ![dst][src] = @ - 1]
          /\ UNCHANGED s_req
     ELSE /\ s_req' = [s_req EXCEPT ![dst][src] = "done"]
          /\ UNCHANGED s_stale
  /\ UNCHANGED <<spc, s_args, s_idx, s_blocked, s_done_count, caf_is_finalized,
                 s_calls_left, s_plan, s_may_stop, s_rendezvous, s_started, s_passed>>

\* One turn of the MPI_Waitany loop: a completed receive is handed out.
MPI_Waitany(i) ==
  /\ spc[i] = "wait"
  /\ \E src \in SImages :
       /\ s_req[i][src] = "done"
       /\ IF arrived[i][src] = STAT_STOPPED_IMAGE
          THEN \* break: the other receives are left as they are
               /\ s_req' = [s_req EXCEPT ![i] = [x \in SImages |-> "none"]]
               /\ s_stale' = [s_stale EXCEPT ![i] =
                     [x \in SImages |-> IF s_req[i][x] = "pending" THEN @[x] + 1 ELSE @[x]]]
               /\ SyncReturn(i, s_args[i], STAT_STOPPED_IMAGE)
               /\ UNCHANGED s_passed
          ELSE /\ s_req' = [s_req EXCEPT ![i][src] = "none"]
               /\ UNCHANGED s_stale
               /\ IF sync_wait_more(s_done_count[i] + 1, eff_count(i, s_args[i]))
                  THEN /\ s_done_count' = [s_done_count EXCEPT ![i] = @ + 1]
                       /\ s_last' = NoLast
                       /\ UNCHANGED <<spc, s_args, s_idx, s_passed>>
                  ELSE /\ SyncReturn(i, s_args[i], 0)
                       /\ SyncPassed(i, eff_images(i, s_args[i]))
  /\ UNCHANGED <<chan, arrived, s_blocked, caf_is_finalized, s_calls_left, s_plan,
                 s_may_stop, s_rendezvous, s_started>>

\* PREFIX(finalize) and the stop procedures enter finalize_internal, which sets
\* img_status and announces it to every other image.
finalize_internal(i, status_code) ==
  /\ spc[i] = "idle"
  /\ ~caf_is_finalized[i]
  /\ s_may_stop
  /\ spc' = [spc EXCEPT ![i] = IF status_code = 0 THEN "announce_fin"
                                ELSE "announce_stop"]
  /\ s_idx' = [s_idx EXCEPT ![i] = 0]
  /\ s_last' = NoLast
  /\ UNCHANGED <<chan, s_args, s_blocked, s_done_count, s_req, s_stale, arrived,
                 caf_is_finalized, s_calls_left, s_plan, s_may_stop,
                 s_rendezvous, s_started, s_passed>>

\* terminate_internal after finalize_internal has returned: MPI_Abort ends
\* every process of MPI_COMM_WORLD.
terminate_internal(i) ==
  /\ spc[i] = "abort"
  /\ spc' = [j \in SImages |-> IF j = i THEN "stopped"
                               ELSE IF spc[j] \in {"exited", "stopped"} THEN spc[j]
                               ELSE "killed"]
  /\ s_last' = NoLast
  /\ UNCHANGED <<chan, s_args, s_idx, s_blocked, s_done_count, s_req, s_stale,
                 arrived, caf_is_finalized, s_calls_left, s_plan,
                 s_may_stop, s_rendezvous, s_started, s_passed>>

\* MPI_Barrier of finalize_internal (status_code = 0) once every image is in
\* it, and the teardown that follows: caf_is_finalized = 1.
finalize_barrier ==
  /\ \A i \in SImages : spc[i] = "barrier"
  /\ spc' = [i \in SImages |-> "idle"]
  /\ caf_is_finalized' = [i \in SImages |-> TRUE]
  /\ s_last' = NoLast
  /\ UNCHANGED <<chan, s_args, s_idx, s_blocked, s_done_count, s_req, s_stale,
                 arrived, s_calls_left, s_plan, s_may_stop, s_rendezvous, s_started,
                 s_passed>>

SyncIdle ==
  /\ spc = [i \in SImages |-> "idle"]
  /\ s_args = [i \in SImages |-> NoArgs]
  /\ s_idx = [i \in SImages |-> 0]
  /\ s_blocked = [i \in SImages |-> FALSE]
  /\ s_done_count = [i \in SImages |-> 0]
  /\ chan = [i \in SImages |-> [j \in SImages |-> <<>>]]
  /\ s_req = [i \in SImages |-> [j \in SImages |-> "none"]]
  /\ s_stale = [i \in SImages |-> [j \in SImages |-> 0]]
  /\ arrived = [i \in SImages |-> [j \in SImages |-> 0]]
  /\ caf_is_finalized = [i \in SImages |-> FALSE]
  /\ s_last = NoLast
  /\ s_calls_left = [i \in SImages |-> 0]
  /\ s_plan = [i \in SImages |-> {}]
  /\ s_may_stop = FALSE
  /\ s_rendezvous = FALSE
  /\ s_started = [i \in SImages |-> [j \in SImages |-> 0]]
  /\ s_passed = [i \in SImages |-> [j \in SImages |-> 0]]

\* The state init leaves (arrived is calloc'ed, no message is in flight); the
\* programme: which calls each image may make.
SyncProgram(calls_left, plan, may_stop) ==
  /\ spc = [i \in SImages |-> "idle"]
  /\ s_args = [i \in SImages |-> NoArgs]
  /\ s_idx = [i \in SImages |-> 0]
  /\ s_blocked = [i \in SImages |-> FALSE]
  /\ s_done_count = [i \in SImages |-> 0]
  /\ chan = [i \in SImages |-> [j \in SImages |-> <<>>]]
  /\ s_req = [i \in SImages |-> [j \in SImages |-> "none"]]
  /\ s_stale = [i \in SImages |-> [j \in SImages |-> 0]]
  /\ arrived = [i \in SImages |-> [j \in SImages |-> 0]]
  /\ caf_is_finalized = [i \in SImages |-> FALSE]
  /\ s_last = NoLast
  /\ s_calls_left = calls_left
  /\ s_plan = plan
  /\ s_may_stop = may_stop
  /\ s_rendezvous \in BOOLEAN
  /\ s_started = [i \in SImages |-> [j \in SImages |-> 0]]
  /\ s_passed = [i \in SImages |-> [j \in SImages |-> 0]]

\* Any image makes up to MaxCalls calls of sync_images with any arguments, and
\* may stop or finalize.
SyncInit ==
  SyncProgram([i \in SImages |-> MaxCalls], [i \in SImages |-> SyncArgs], TRUE)

\* The calls sync_images(S) by image i: the images of S in any order, with or
\* without i itself, or count = -1 when S is every image.
PlanFor(i, S) ==
  {a \in SyncArgs :
     /\ a.report = "stat"
     /\ \/ a.count = 0 - 1 /\ S = SImages
        \/ /\ a.count > 0
           /\ ~has_dup(a.count, a.images)
           /\ Range(a.images) \in {S, S \ {i}}}

\* Every image of a set S calls sync_images(S) MaxCalls times, the others
\* do nothing, and no image stops.
SyncAllOfSetInit ==
  \E S \in SUBSET SImages :
    /\ Cardinality(S) >= 2
    /\ SyncProgram([i \in SImages |-> IF i \in S THEN MaxCalls ELSE 0],
                   [i \in SImages |-> IF i \in S THEN PlanFor(i, S) ELSE {}],
                   FALSE)

\* The steps of image i inside and into sync_images.
SyncStep(i) ==
  \/ \E args \in SyncArgs : sync_images(i, args) /\ UNCHANGED notSyncVars
  \/ \E blocking \in BOOLEAN : MPI_Send(i, blocking) /\ UNCHANGED notSyncVars
  \/ MPI_Send_matched(i) /\ UNCHANGED notSyncVars
  \/ MPI_Waitany(i) /\ UNCHANGED notSyncVars

\* Message matching by the MPI library.
SyncProgress ==
  \E src \in SImages, dst \in SImages : MPI_Match(src, dst) /\ UNCHANGED notSyncVars

SyncAllOfSetNext ==
  \/ \E i \in SImages : SyncStep(i)
  \/ SyncProgress

SyncNext ==
  \/ \E i \in SImages : SyncStep(i)
  \/ SyncProgress
  \/ \E i \in SImages : finalize_internal(i, 0) /\ UNCHANGED notSyncVars
  \/ \E i \in SImages : finalize_internal(i, STAT_STOPPED_IMAGE) /\ UNCHANGED notSyncVars
  \/ \E i \in SImages : terminate_internal(i) /\ UNCHANGED notSyncVars
  \/ finalize_barrier /\ UNCHANGED notSyncVars

(***************************************************************************)
(* Claims about sync images.                                               *)
(***************************************************************************)
\* No image has entered finalize_internal (by finalize or by a stop).
NoStop ==
  \A i \in SImages :
    /\ spc[i] \in {"idle", "send", "wait", "exited"}
    /\ ~caf_is_finalized[i]

\* C5: subset sync completeness.  When every image of a set S calls
\* sync_images(S), also in the form count = -1, every call eventually returns
\* and every call that returns gives stat = 0; sends that wait for their match
\* do not deadlock against the receives posted before them.
C5_SubsetSyncCompleteness ==
  /\ <>(\A i \in SImages : spc[i] = "idle" /\ s_calls_left[i] = 0)
  /\ [](s_last.img # 0 => s_last.stat = 0)

\* C5 witness: with synchronous sends, both images have passed all their
\* syncs with one another.
C5_Witness ==
  /\ s_rendezvous
  /\ \A i \in SImages : spc[i] = "idle" /\ s_calls_left[i] = 0
  /\ s_passed[1][2] = MaxCalls /\ s_passed[2][1] = MaxCalls
  /\ s_last.stat = 0

\* Image i is inside a sync_images call whose set contains image b.
InSyncNaming(i, b) ==
  /\ s_args[i] # NoArgs
  /\ b \in Range(eff_images(i, s_args[i]))

\* C6: stop is observed by subset sync.  An image that is in sync_images on a
\* set containing an image that stops returns from that call (with stat =
\* STAT_STOPPED_IMAGE); it is never ended inside the call.
C6_StopObserved ==
  \A i \in SImages, b \in SImages :
    (spc[b] = "stopped" /\ InSyncNaming(i, b)) => spc[i] # "killed"

\* C7: subset sync pairing.  As long as no image has stopped, the number of
\* syncs naming B that image A has passed with stat 0 never exceeds the number
\* of syncs naming A that image B has entered: A does not pass its k-th sync
\* with B before B has started its own k-th sync with A.
C7_SubsetSyncPairing ==
  NoStop => \A a \in SImages, b \in SImages : s_passed[a][b] <= s_started[b][a]

\* C7 witness: image 1 has passed its second sync with image 2, which is still
\* inside its own second sync with image 1.
C7_Witness ==
  /\ NoStop
  /\ s_passed[1][2] = 2 /\ s_started[2][1] = 2 /\ s_passed[2][1] = 1
  /\ spc[2] = "wait"

\* The three sets of claim C8, read off the arguments alone.
EmptySet(count) == count = 0

SelfOnlySet(count, images, this_image) == count = 1 /\ images = <<this_image>>

DuplicateSet(count, images) ==
  count >= 2 /\ Cardinality(Range(images)) < Len(images)

\* C8: a sync_images call whose set is empty, holds only the calling image, or
\* holds an index twice returns in the step that enters it, sends no message
\* and posts no receive; a stat argument receives 0 in the first two cases and
\* STAT_DUP_SYNC_IMAGES in the third.
C8_TrivialSets ==
  [][\A i \in SImages :
       s_calls_left'[i] < s_calls_left[i] =>
         LET returned == s_last'.img = i
             count == IF returned THEN s_last'.count ELSE s_args'[i].count
             images == IF returned THEN s_last'.images ELSE s_args'[i].images
             dup == DuplicateSet(count, images)
         IN  (EmptySet(count) \/ SelfOnlySet(count, images, i) \/ dup) =>
               /\ returned
               /\ chan' = chan /\ s_req' = s_req /\ s_stale' = s_stale
               /\ arrived' = arrived
               /\ spc'[i] \in {"idle", "exited"}
               /\ spc'[i] = "exited" => (dup /\ s_last'.report = "none")
               /\ s_last'.report = "stat" =>
                    s_last'.stat = IF dup THEN STAT_DUP_SYNC_IMAGES ELSE 0]_vars

\* C8 witness: image 1 has just returned STAT_DUP_SYNC_IMAGES for the set
\* (2, 2) while a message of image 2 for it is in flight.
C8_Witness ==
  /\ s_last = [img |-> 1, count |-> 2, images |-> <<2, 2>>, report |-> "stat",
               stat |-> STAT_DUP_SYNC_IMAGES]
  /\ chan[2][1] # <<>>
  /\ spc[1] = "idle"

(***************************************************************************)
(*                 REGISTER, DEREGISTER (master tokens)                    *)
(*                                                                         *)
(* register of a master kind, deregister and finalize contain collective   *)
(* MPI calls, so all images make them in the same order: r_script is that  *)
(* order, extended by the image that gets to a new call first.  A          *)
(* collective call (MPI_Win_allocate, MPI_Barrier, MPI_Win_free) returns   *)
(* on an image once every image has entered it.  Token k is the token of   *)
(* the k-th register.  Build with GCC_GE_7 and MPI_VERSION >= 3.           *)
(***************************************************************************)
RegImages == 2
MaxRegs == 2
MaxVal == 1
RImages == 1 .. RegImages
RTokens == 1 .. MaxRegs

\* Register types with and without l_var; deregister types.
RegTypes == {"CAF_REGTYPE_COARRAY_ALLOC", "CAF_REGTYPE_LOCK_ALLOC"}

DeregTypes == {"CAF_DEREGTYPE_COARRAY_DEREGISTER", "CAF_DEREGTYPE_COARRAY_DEALLOCATE_ONLY"}

\* register: the kinds that hold size ints and are zero-initialised.
l_var(type) == type = "CAF_REGTYPE_LOCK_ALLOC"

\* A plausible slip: the token never learns its memory.
token_memptr_null(mem) == 0

\* register: mpi_token->memptr = mem.
token_memptr(mem) == mem

\* The address MPI_Win_allocate returns on image i for its k-th window.
Win_allocate_mem(i, k) == r_heap[i] + k

\* deregister: the unlinking of list element p (1 is caf_allocated_tokens,
\* p + 1 is ->prev of p); `next->prev = prev->prev` for an element that is
\* not the head.
token_unlink(list, p) ==
  IF p = 1 THEN Tail(list)
  ELSE SubSeq(list, 1, p - 1) \o SubSeq(list, p + 2, Len(list))

\* The place of token k in a list, 0 if it is not there.
token_find(list, k) ==
  IF \E p \in 1 .. Len(list) : list[p] = k
  THEN CHOOSE p \in 1 .. Len(list) : list[p] = k /\ \A q \in 1 .. p - 1 : list[q] # k
  ELSE 0

\* The number of register calls among the first n calls of the script.
RECURSIVE RegCount(_, _)
RegCount(script, n) ==
  IF n = 0 THEN 0
  ELSE RegCount(script, n - 1) + (IF script[n].op = "register" THEN 1 ELSE 0)

\* The call image i is in or comes to next, and its number.
r_n(i) == r_pos[i] + 1

r_op(i) == r_script[r_n(i)]

\* Image i makes `op` as its next call: the script has it there, or i is the
\* first to get there and the programme goes on with op.
NextCall(i, op) ==
  /\ r_phase[i] = "idle"
  /\ IF r_pos[i] < Len(r_script)
     THEN r_op(i) = op /\ UNCHANGED r_script
     ELSE /\ IF r_script = <<>> THEN TRUE
             ELSE r_script[Len(r_script)].op # "finalize"
          /\ r_script' = Append(r_script, op)

\* Every image has entered the collective call `phases` of call number n.
AllEntered(n, phases) ==
  \A j \in RImages : r_pos[j] >= n \/ (r_pos[j] = n - 1 /\ r_phase[j] \in phases)

\* register, label error: the messages.
msg_stopped ==
  <<"F", "a", "i", "l", "e", "d", " ", "t", "o", " ", "a", "l", "l", "o",
    "c", "a", "t", "e", " ", "c", "o", "a", "r", "r", "a", "y", " ", "-",
    " ", "t", "h", "e", "r", "e", " ", "a", "r", "e", " ", "s", "t", "o",
    "p", "p", "e", "d", " ", "i", "m", "a", "g", "e", "s">>

msg_failed ==
  <<"F", "a", "i", "l", "e", "d", " ", "t", "o", " ", "a", "l", "l", "o",
    "c", "a", "t", "e", " ", "c", "o", "a", "r", "r", "a", "y">>

\* deregister: msg.
msg_dealloc ==
  <<"F", "a", "i", "l", "e", "d", " ", "t", "o", " ", "d", "e", "a", "l",
    "l", "o", "c", "a", "t", "e", " ", "c", "o", "a", "r", "r", "a", "y",
    " ", "-", " ", "t", "h", "e", "r", "e", " ", "a", "r", "e", " ", "s",
    "t", "o", "p", "p", "e", "d", " ", "i", "m", "a", "g", "e", "s">>

\* The errmsg buffers a call is given: errmsg_len characters of whatever the
\* caller left there; errmsg_len is 0 without an errmsg.
RegErrArgs(m) == {[k \in 1 .. n |-> "?"] : n \in {0, 1, Len(m) + ErrPad}}

\* memset of n characters behind the first `from` characters of a buffer.
memset_at(buf, from, c, n) ==
  [k \in DOMAIN buf |-> IF from < k /\ k <= from + n THEN c ELSE buf[k]]

\* register / deregister: the errmsg buffer after the error exit with stat.
error_errmsg(errmsg, m) ==
  LET errmsg_len == Len(errmsg)
      len == IF Len(m) > errmsg_len THEN errmsg_len ELSE Len(m)
  IN  IF errmsg_len > 0
      THEN LET copied == memcpy(errmsg, m, len) IN
           IF errmsg_len > len
           THEN memset_at(copied, len, " ", errmsg_len - len)
           ELSE copied
      ELSE errmsg

\* register / deregister, the error exit: stat and errmsg are written if stat
\* is present, otherwise caf_runtime_error prints the message and exits.
error_exit(i, hasStat, code, m) ==
  /\ r_phase[i] = "idle"
  /\ r_stat' = [r_stat EXCEPT ![i] = IF hasStat THEN code ELSE @]
  /\ r_phase' = [r_phase EXCEPT ![i] = IF hasStat THEN "idle" ELSE "exited"]
  /\ IF hasStat
     THEN \E errmsg \in RegErrArgs(m) : r_errmsg' = error_errmsg(errmsg, m)
     ELSE UNCHANGED r_errmsg

\* register up to MPI_Win_allocate, and its error exit when finalized.  An
\* MPI_Win_allocate that cannot get its memory raises an MPI error; no error
\* handler is set in this build, so the error is fatal to the job.
register(i, type, hasStat) ==
  /\ IF r_finalized[i]
     THEN /\ error_exit(i, hasStat,
                        IF r_finalized[i] THEN STAT_STOPPED_IMAGE ELSE 1,
                        IF r_finalized[i] THEN msg_stopped ELSE msg_failed)
          /\ UNCHANGED <<r_script, r_hasStat>>
     ELSE /\ RegCount(r_script, r_pos[i]) < MaxRegs
          /\ NextCall(i, [op |-> "register", type |-> type, tok |-> 0])
          /\ r_hasStat' = [r_hasStat EXCEPT ![i] = hasStat]
          /\ \E allocated \in BOOLEAN :
               r_phase' = IF allocated
                          THEN [r_phase EXCEPT ![i] = "alloc"]
                          ELSE [j \in RImages |-> "killed"]
          /\ UNCHANGED <<r_stat, r_errmsg>>
  /\ UNCHANGED <<r_pos, r_held, r_memptr, caf_allocated_tokens, r_win, r_base,
                 r_data, r_heap, r_fault, r_finalized>>

\* MPI_Win_allocate on CAF_COMM_WORLD: with every image in the call the
\* window exists on every image, over memory MPI has allocated there.
MPI_Win_allocate ==
  LET k == RegCount(r_script, Len(r_script)) IN
  /\ \A j \in RImages : r_pos[j] = Len(r_script) - 1 /\ r_phase[j] = "alloc"
  /\ \A j \in RImages : r_win[j][k] = "none"
  /\ r_win' = [j \in RImages |-> [r_win[j] EXCEPT ![k] = "open"]]
  /\ r_base' = [j \in RImages |-> [r_base[j] EXCEPT ![k] = Win_allocate_mem(j, k)]]
  /\ UNCHANGED <<r_script, r_pos, r_phase, r_hasStat, r_stat, r_held, r_memptr,
                 caf_allocated_tokens, r_data, r_heap, r_fault, r_finalized>>
  /\ UNCHANGED r_errmsg

\* register from the return of MPI_Win_allocate to its own return.
register_return(i) ==
  LET k == RegCount(r_script, r_n(i))
      mem == r_base[i][k] IN
  /\ r_phase[i] = "alloc"
  /\ r_win[i][k] = "open"
  /\ UNCHANGED <<r_win, r_base>>
  /\ r_data' = [r_data EXCEPT ![i][k] = IF l_var(r_op(i).type) THEN 0 ELSE @]
  /\ caf_allocated_tokens' = [caf_allocated_tokens EXCEPT ![i] = <<k>> \o @]
  /\ r_stat' = [r_stat EXCEPT ![i] = IF r_hasStat[i] THEN 0 ELSE @]
  /\ r_memptr' = [r_memptr EXCEPT ![i][k] = token_memptr(mem)]
  /\ r_held' = [r_held EXCEPT ![i][k] = TRUE]
  /\ r_pos' = [r_pos EXCEPT ![i] = @ + 1]
  /\ r_phase' = [r_phase EXCEPT ![i] = "idle"]
  /\ r_hasStat' = [r_hasStat EXCEPT ![i] = FALSE]
  /\ UNCHANGED <<r_script, r_heap, r_fault, r_finalized>>
  /\ UNCHANGED r_errmsg

\* deregister up to its first collective call, of a token the programme holds;
\* on a finalized image its error exit, whatever token it is given.
deregister(i, k, type, hasStat) ==
  IF r_finalized[i]
  THEN /\ error_exit(i, hasStat, STAT_STOPPED_IMAGE, msg_dealloc)
       /\ UNCHANGED <<r_script, r_pos, r_hasStat, r_held, r_memptr,
                      caf_allocated_tokens, r_win, r_base, r_data, r_heap, r_fault,
                      r_finalized>>
  ELSE
  /\ r_held[i][k]
  /\ NextCall(i, [op |-> "deregister", type |-> type, tok |-> k])
  /\ r_held' = [r_held EXCEPT ![i][k] = FALSE]
  /\ r_stat' = [r_stat EXCEPT ![i] = IF hasStat THEN 0 ELSE @]
  /\ IF type # "CAF_DEREGTYPE_COARRAY_DEALLOCATE_ONLY"
     THEN /\ r_phase' = [r_phase EXCEPT ![i] = "sync"]
          /\ UNCHANGED r_pos
     ELSE IF token_find(caf_allocated_tokens[i], k) # 0
     THEN /\ r_phase' = [r_phase EXCEPT ![i] = "free"]
          /\ UNCHANGED r_pos
     ELSE /\ r_pos' = [r_pos EXCEPT ![i] = @ + 1]
          /\ UNCHANGED r_phase
  /\ UNCHANGED <<r_hasStat, r_memptr, caf_allocated_tokens, r_win, r_base, r_data,
                 r_heap, r_fault, r_finalized, r_errmsg>>

\* deregister: sync_all has returned; the search of caf_allocated_tokens.
deregister_synced(i) ==
  /\ r_phase[i] = "sync"
  /\ AllEntered(r_n(i), {"sync", "free"})
  /\ IF token_find(caf_allocated_tokens[i], r_op(i).tok) # 0
     THEN /\ r_phase' = [r_phase EXCEPT ![i] = "free"]
          /\ UNCHANGED r_pos
     ELSE /\ r_phase' = [r_phase EXCEPT ![i] = "idle"]
          /\ r_pos' = [r_pos EXCEPT ![i] = @ + 1]
  /\ UNCHANGED <<r_script, r_hasStat, r_stat, r_held, r_memptr, caf_allocated_tokens,
                 r_win, r_base, r_data, r_heap, r_fault, r_finalized>>
  /\ UNCHANGED r_errmsg

\* MPI_Win_free: with every image in the call the window and its memory are
\* gone on every image.
MPI_Win_free ==
  LET k == r_script[Len(r_script)].tok IN
  /\ \A j \in RImages : r_pos[j] = Len(r_script) - 1 /\ r_phase[j] = "free"
  /\ \A j \in RImages : r_win[j][k] = "open"
  /\ r_win' = [j \in RImages |-> [r_win[j] EXCEPT ![k] = "freed"]]
  /\ r_base' = [j \in RImages |-> [r_base[j] EXCEPT ![k] = 0]]
  /\ r_data' = [j \in RImages |-> [r_data[j] EXCEPT ![k] = NoValue]]
  /\ UNCHANGED <<r_script, r_pos, r_phase, r_hasStat, r_stat, r_held, r_memptr,
                 caf_allocated_tokens, r_heap, r_fault, r_finalized>>
  /\ UNCHANGED r_errmsg

\* deregister: MPI_Win_free has returned; the token is unlinked and freed.
deregister_freed(i) ==
  LET k == r_op(i).tok IN
  /\ r_phase[i] = "free"
  /\ r_win[i][k] = "freed"
  /\ UNCHANGED <<r_win, r_base, r_data>>
  /\ caf_allocated_tokens' = [caf_allocated_tokens EXCEPT ![i] =
                                 token_unlink(@, token_find(@, k))]
  /\ r_memptr' = [r_memptr EXCEPT ![i][k] = 0]
  /\ r_phase' = [r_phase EXCEPT ![i] = "idle"]
  /\ r_pos' = [r_pos EXCEPT ![i] = @ + 1]
  /\ UNCHANGED <<r_script, r_hasStat, r_stat, r_held, r_heap, r_fault, r_finalized>>
  /\ UNCHANGED r_errmsg

\* PREFIX(finalize) up to the barrier of finalize_internal.
reg_finalize(i) ==
  /\ ~r_finalized[i]
  /\ NextCall(i, [op |-> "finalize", type |-> "", tok |-> 0])
  /\ r_phase' = [r_phase EXCEPT ![i] = "barrier"]
  /\ r_held' = [r_held EXCEPT ![i] = [k \in RTokens |-> FALSE]]
  /\ UNCHANGED <<r_pos, r_hasStat, r_stat, r_memptr, caf_allocated_tokens, r_win,
                 r_base, r_data, r_heap, r_fault, r_finalized>>
  /\ UNCHANGED r_errmsg

\* finalize_internal after its barrier: every token of caf_allocated_tokens
\* is freed with its window.
reg_finalize_teardown(i) ==
  LET listed == {caf_allocated_tokens[i][p] : p \in 1 .. Len(caf_allocated_tokens[i])} IN
  /\ r_phase[i] = "barrier"
  /\ AllEntered(r_n(i), {"barrier"})
  /\ r_win' = [r_win EXCEPT ![i] = [k \in RTokens |-> IF k \in listed THEN "freed" ELSE @[k]]]
  /\ r_base' = [r_base EXCEPT ![i] = [k \in RTokens |-> IF k \in listed THEN 0 ELSE @[k]]]
  /\ r_data' = [r_data EXCEPT ![i] = [k \in RTokens |-> IF k \in listed THEN NoValue ELSE @[k]]]
  /\ r_memptr' = [r_memptr EXCEPT ![i] = [k \in RTokens |-> IF k \in listed THEN 0 ELSE @[k]]]
  /\ caf_allocated_tokens' = [caf_allocated_tokens EXCEPT ![i] = <<>>]
  /\ r_finalized' = [r_finalized EXCEPT ![i] = TRUE]
  /\ r_phase' = [r_phase EXCEPT ![i] = "idle"]
  /\ r_pos' = [r_pos EXCEPT ![i] = @ + 1]
  /\ UNCHANGED <<r_script, r_hasStat, r_stat, r_held, r_heap, r_fault>>
  /\ UNCHANGED r_errmsg

\* An RMA write of value v by image i to image j's part of token k; it needs
\* the window on both sides.
reg_put(i, j, k, v) ==
  /\ r_phase[i] = "idle"
  /\ r_held[i][k]
  /\ IF r_win[i][k] = "open" /\ r_win[j][k] = "open"
     THEN r_data' = [r_data EXCEPT ![j][k] = v] /\ UNCHANGED r_fault
     ELSE r_fault' = TRUE /\ UNCHANGED r_data
  /\ UNCHANGED <<r_script, r_pos, r_phase, r_hasStat, r_stat, r_held, r_memptr,
                 caf_allocated_tokens, r_win, r_base, r_heap, r_finalized>>
  /\ UNCHANGED r_errmsg

RegIdle ==
  /\ r_script = <<>>
  /\ r_pos = [i \in RImages |-> 0]
  /\ r_phase = [i \in RImages |-> "idle"]
  /\ r_hasStat = [i \in RImages |-> FALSE]
  /\ r_stat = [i \in RImages |-> NoValue]
  /\ r_held = [i \in RImages |-> [k \in RTokens |-> FALSE]]
  /\ r_memptr = [i \in RImages |-> [k \in RTokens |-> 0]]
  /\ caf_allocated_tokens = [i \in RImages |-> <<>>]
  /\ r_win = [i \in RImages |-> [k \in RTokens |-> "none"]]
  /\ r_base = [i \in RImages |-> [k \in RTokens |-> 0]]
  /\ r_data = [i \in RImages |-> [k \in RTokens |-> NoValue]]
  /\ r_heap = [i \in RImages |-> 0]
  /\ r_fault = FALSE
  /\ r_finalized = [i \in RImages |-> FALSE]
  /\ r_errmsg = <<>>

\* The state after init: no token; the images' heaps need not lie alike.
RegInit ==
  /\ r_script = <<>>
  /\ r_pos = [i \in RImages |-> 0]
  /\ r_phase = [i \in RImages |-> "idle"]
  /\ r_hasStat = [i \in RImages |-> FALSE]
  /\ r_stat = [i \in RImages |-> NoValue]
  /\ r_held = [i \in RImages |-> [k \in RTokens |-> FALSE]]
  /\ r_memptr = [i \in RImages |-> [k \in RTokens |-> 0]]
  /\ caf_allocated_tokens = [i \in RImages |-> <<>>]
  /\ r_win = [i \in RImages |-> [k \in RTokens |-> "none"]]
  /\ r_base = [i \in RImages |-> [k \in RTokens |-> 0]]
  /\ r_data = [i \in RImages |-> [k \in RTokens |-> NoValue]]
  /\ r_heap \in [RImages -> {0, MaxRegs}]
  /\ r_fault = FALSE
  /\ r_finalized = [i \in RImages |-> FALSE]
  /\ r_errmsg = <<>>

RegNext ==
  \/ \E i \in RImages, type \in RegTypes, hasStat \in BOOLEAN :
       register(i, type, hasStat) /\ UNCHANGED notRegVars
  \/ MPI_Win_allocate /\ UNCHANGED notRegVars
  \/ \E i \in RImages : register_return(i) /\ UNCHANGED notRegVars
  \/ \E i \in RImages, k \in RTokens, type \in DeregTypes, hasStat \in BOOLEAN :
       deregister(i, k, type, hasStat) /\ UNCHANGED notRegVars
  \/ \E i \in RImages : deregister_synced(i) /\ UNCHANGED notRegVars
  \/ MPI_Win_free /\ UNCHANGED notRegVars
  \/ \E i \in RImages : deregister_freed(i) /\ UNCHANGED notRegVars
  \/ \E i \in RImages : reg_finalize(i) /\ UNCHANGED notRegVars
  \/ \E i \in RImages : reg_finalize_teardown(i) /\ UNCHANGED notRegVars
  \/ \E i \in RImages, j \in RImages, k \in RTokens, v \in 0 .. MaxVal :
       reg_put(i, j, k, v) /\ UNCHANGED notRegVars

(***************************************************************************)
(* Claims about registration.                                              *)
(***************************************************************************)
\* The number of the call that registers token k, 0 if the script has none.
RegCall(k) ==
  IF \E n \in 1 .. Len(r_script) : r_script[n].op = "register" /\ RegCount(r_script, n) = k
  THEN CHOOSE n \in 1 .. Len(r_script) :
         r_script[n].op = "register" /\ RegCount(r_script, n) = k
  ELSE 0

\* register of token k has returned on every image.
Registered(k) == RegCall(k) # 0 /\ \A j \in RImages : r_pos[j] >= RegCall(k)

\* C9: symmetric registration.  Once the register of a master token has
\* returned on the images, then for every image that still holds the token
\* (it has called neither deregister for it nor finalize): the token's window
\* is open on every image, its base on that image is the token's memptr, and
\* an RMA access by that image to any image's part finds the window; an image
\* that has not given the token up holds it.
C9_SymmetricRegistration ==
  /\ ~r_fault
  /\ \A k \in RTokens, i \in RImages :
       (Registered(k) /\ r_held[i][k]) =>
          /\ \A j \in RImages : r_win[j][k] = "open"
          /\ r_memptr[i][k] # 0
          /\ r_base[i][k] = r_memptr[i][k]
          /\ Cardinality({p \in 1 .. Len(caf_allocated_tokens[i]) :
                            caf_allocated_tokens[i][p] = k}) <= 1

\* C9 witness: image 1 still holds token 1, image 2 is inside deregister for
\* it, and image 2's part holds a value image 1 has written; the two images'
\* memptr differ.
C9_Witness ==
  /\ Registered(1) /\ r_held[1][1] /\ ~r_held[2][1]
  /\ r_phase[2] \in {"sync", "free"}
  /\ r_data[2][1] = 1
  /\ r_memptr[1][1] # r_memptr[2][1]


\* An image that is in a full deregister past the sync point, where it
\* releases the window, is there only when every image has entered the call.
SyncedBeforeRelease ==
  \A i \in RImages :
    (r_phase[i] = "free" /\ r_op(i).type # "CAF_DEREGTYPE_COARRAY_DEALLOCATE_ONLY") =>
       AllEntered(r_n(i), {"sync", "free"})

\* A deregister in deallocate-only mode is never in a collective call, where
\* it would wait for the other images.
DeallocateOnlyLocal ==
  \A i \in RImages :
    r_phase[i] \in {"sync", "free"} =>
       r_op(i).type # "CAF_DEREGTYPE_COARRAY_DEALLOCATE_ONLY"

\* C26: sync point before full deregistration.  In a full deregister no
\* image releases the token's window before every image has entered the
\* call, and a deregister in deallocate-only mode does not synchronise with
\* other images.
C26_SyncPoint == SyncedBeforeRelease /\ DeallocateOnlyLocal

\* A message as Fortran stores it in a CHARACTER(n): cut to n characters or
\* followed by spaces up to n.
PaddedTo(m, n) == [k \in 1 .. n |-> IF k <= Len(m) THEN m[k] ELSE " "]

\* The step is the error exit of a call with stat on image i: stat is
\* STAT_STOPPED_IMAGE, errmsg holds message m padded to its length, the call
\* has returned, and no token, window or list entry has changed.
StoppedExit(i, m) ==
  /\ r_stat'[i] = STAT_STOPPED_IMAGE
  /\ r_phase'[i] = "idle"
  /\ \E errmsg \in RegErrArgs(m) : r_errmsg' = PaddedTo(m, Len(errmsg))
  /\ caf_allocated_tokens' = caf_allocated_tokens
  /\ r_memptr' = r_memptr /\ r_win' = r_win /\ r_base' = r_base /\ r_data' = r_data

\* The step is a register of image i, not finalized, whose allocation fails.
RegisterFails(i) ==
  /\ ~r_finalized[i]
  /\ r_phase[i] = "idle" /\ r_phase'[i] = "killed"
  /\ r_pos[i] = Len(r_script') - 1 /\ r_script'[Len(r_script')].op = "register"

\* C19: registry operations after finalize.  On a finalized image register and
\* deregister with stat set stat = STAT_STOPPED_IMAGE, leave their message in
\* errmsg padded with spaces to errmsg_len, and change no token and no list; a
\* register with stat that fails on an image not finalized returns stat = 1.
C19_AfterFinalize ==
  [][\A i \in RImages :
       /\ r_finalized[i] =>
            /\ \A type \in RegTypes : register(i, type, TRUE) => StoppedExit(i, msg_stopped)
            /\ \A k \in RTokens, type \in DeregTypes :
                 deregister(i, k, type, TRUE) => StoppedExit(i, msg_dealloc)
       /\ (RegisterFails(i) /\ r_hasStat'[i]) =>
            (r_stat'[i] = 1 /\ r_phase'[i] = "idle")]_vars

(***************************************************************************)
(*          SEND, GET, SENDGET AND THE REDUCTIONS co_sum/min/max           *)
(*                                                                         *)
(* One coarray (one window) and one local array per image.  An array is    *)
(* given by its descriptor: the sequence of its dimensions, each with      *)
(* lower_bound and ubound (_ubound); element e of an array is the e-th     *)
(* element a transfer of the whole array moves.  contiguous is what        *)
(* PREFIX(is_contiguous) says of the descriptors; source and destination   *)
(* have the same type, kind and rank.  Build without WITH_FAILED_IMAGES    *)
(* and without STRIDED, MPI calls succeed (ierr = 0); in this build a      *)
(* transfer makes no use of its stat argument.                             *)
(***************************************************************************)
XferImages == 2
MaxRank == 2
MaxExtent == 2
MaxOps == 2
XImages == 1 .. XferImages

\* The dimensions a descriptor can hold: with lower_bound 1, one of negative
\* extent, an empty one and one of MaxExtent elements; the descriptors.
Dims == {[lower_bound |-> 1, ubound |-> u] : u \in {0 - 1, 0, MaxExtent}}

Descriptors == UNION {[1 .. r -> Dims] : r \in 0 .. MaxRank}

\* The elements an array of these descriptors can have.
XElems == 1 .. MaxExtent ^ MaxRank

\* The three ways of building the RMA synchronisation.
Builds == {"CAF_MPI_LOCK_UNLOCK", "NONBLOCKING_PUT", "MPI_Win_flush"}

Transfers == {"send", "get", "sendget"}

Reductions == {"co_sum", "co_min", "co_max"}

NoXLast == [op |-> "none", img |-> 0, size |-> NoValue, contiguous |-> FALSE,
            hasStat |-> FALSE]

NoCall == [op |-> "none", size |-> NoValue, contiguous |-> FALSE, result_image |-> 0,
           hasStat |-> FALSE]

\* dimextent of one dimension, negative extents taken as 0.
dimextent(d) ==
  IF d.ubound - d.lower_bound + 1 < 0 THEN 0 ELSE d.ubound - d.lower_bound + 1

\* size: the product of the extents of the first rank dimensions.
RECURSIVE xfer_size(_, _)
xfer_size(rank, dim) ==
  IF rank = 0 THEN 1 ELSE xfer_size(rank - 1, dim) * dimextent(dim[rank])

\* A plausible slip: the transfer goes on with no element to move.
size_is_zero_never(size) == FALSE

\* send, get, sendget: if (size == 0) return.
size_is_zero(size) == size = 0

\* The fast path of a transfer: one bulk MPI_Put or MPI_Get.
one_transfer(rank, contiguous) == rank = 0 \/ contiguous

\* CAF_Win_lock is MPI_Win_lock in the CAF_MPI_LOCK_UNLOCK build and nothing
\* otherwise: n uses of the macro are this many MPI_Win_lock calls.
CAF_Win_lock(n) == IF x_build = "CAF_MPI_LOCK_UNLOCK" THEN n ELSE 0

\* f with n more at j.
Bump(f, j, n) == [f EXCEPT ![j] = @ + n]

\* dst after its first size elements were taken from src.
CopyElems(dst, src, size) == [e \in XElems |-> IF e <= size THEN src[e] ELSE dst[e]]

\* Every call is one of the calls the programme makes.  x_last keeps of a
\* reduction whether its array is contiguous and whether it has a stat.
XferCall(i, op, size, contiguous, hasStat) ==
  /\ x_pc[i] = "idle"
  /\ x_ops_left > 0
  /\ x_ops_left' = x_ops_left - 1
  /\ x_last' = [op |-> op, img |-> i, size |-> size,
                contiguous |-> op \in Reductions /\ contiguous,
                hasStat |-> op \in Reductions /\ hasStat]
  /\ UNCHANGED x_build

\* PREFIX(send): image i writes its local array to image_index's part.
send(i, image_index, dest, contiguous) ==
  LET rank == Len(dest)
      size == xfer_size(rank, dest) IN
  /\ XferCall(i, "send", size, contiguous, FALSE)
  /\ IF size_is_zero(size)
     THEN UNCHANGED <<x_mem, x_win_locks, x_rma, pending_puts>>
     ELSE /\ x_mem' = [x_mem EXCEPT ![image_index] = CopyElems(@, x_buf[i], size)]
          /\ IF one_transfer(rank, contiguous)
             THEN IF i = image_index
                  THEN UNCHANGED <<x_win_locks, x_rma, pending_puts>>
                  ELSE /\ x_win_locks' = Bump(x_win_locks, image_index, CAF_Win_lock(1))
                       /\ x_rma' = Bump(x_rma, image_index, 1)
                       /\ pending_puts' =
                            IF x_build = "NONBLOCKING_PUT"
                            THEN [pending_puts EXCEPT ![i] = Append(@, image_index)]
                            ELSE pending_puts
             ELSE /\ x_win_locks' = Bump(x_win_locks, image_index, CAF_Win_lock(1))
                  /\ x_rma' = Bump(x_rma, image_index, IF i = image_index THEN 0 ELSE size)
                  /\ UNCHANGED pending_puts
  /\ UNCHANGED <<x_buf, x_coll, x_stat, x_pc, x_call>>

\* PREFIX(get): image i reads image_index's part into its local array.
get(i, image_index, dest, contiguous) ==
  LET rank == Len(dest)
      size == xfer_size(rank, dest) IN
  /\ XferCall(i, "get", size, contiguous, FALSE)
  /\ IF size_is_zero(size)
     THEN UNCHANGED <<x_buf, x_win_locks, x_rma>>
     ELSE /\ x_buf' = [x_buf EXCEPT ![i] = CopyElems(@, x_mem[image_index], size)]
          /\ IF one_transfer(rank, contiguous)
             THEN IF i = image_index
                  THEN UNCHANGED <<x_win_locks, x_rma>>
                  ELSE /\ x_win_locks' = Bump(x_win_locks, image_index, CAF_Win_lock(1))
                       /\ x_rma' = Bump(x_rma, image_index, 1)
             ELSE /\ x_win_locks' = Bump(x_win_locks, image_index, CAF_Win_lock(1))
                  /\ x_rma' = Bump(x_rma, image_index, IF i = image_index THEN 0 ELSE size)
  /\ UNCHANGED <<x_mem, x_coll, pending_puts, x_stat, x_pc, x_call>>

\* PREFIX(sendget): image i copies image_index_g's part to image_index_s's
\* part, through a temporary: MPI_Get, then MPI_Put.
sendget(i, image_index_s, image_index_g, dest, contiguous) ==
  LET rank == Len(dest)
      size == xfer_size(rank, dest)
      n == IF one_transfer(rank, contiguous) THEN 1 ELSE size IN
  /\ XferCall(i, "sendget", size, contiguous, FALSE)
  /\ IF size_is_zero(size)
     THEN UNCHANGED <<x_mem, x_win_locks, x_rma>>
     ELSE /\ x_mem' = [x_mem EXCEPT ![image_index_s] =
                          CopyElems(@, x_mem[image_index_g], size)]
          /\ x_win_locks' = Bump(Bump(x_win_locks, image_index_g, CAF_Win_lock(n)),
                                 image_index_s, CAF_Win_lock(n))
          /\ x_rma' = Bump(Bump(x_rma, image_index_g, n), image_index_s, n)
  /\ UNCHANGED <<x_buf, x_coll, pending_puts, x_stat, x_pc, x_call>>

\* PREFIX(sync_memory): explicit_flush empties the FIFO in the build that
\* has one.
sync_memory(i) ==
  /\ XferCall(i, "sync_memory", NoValue, FALSE, FALSE)
  /\ pending_puts' = IF x_build = "NONBLOCKING_PUT"
                     THEN [pending_puts EXCEPT ![i] = <<>>]
                     ELSE pending_puts
  /\ UNCHANGED <<x_mem, x_buf, x_win_locks, x_rma, x_coll, x_stat, x_pc, x_call>>

\* internal_co_reduce up to its collective call: one MPI_Allreduce or
\* MPI_Reduce with count = size for a contiguous array, one per element
\* otherwise; with no collective to make it goes to co_reduce_cleanup at once.
\* The images make their collective calls in the same order with the same
\* arguments.
internal_co_reduce(i, name, source, contiguous, result_image, hasStat) ==
  LET rank == Len(source)
      size == xfer_size(rank, source)
      call == [op |-> name, size |-> size, contiguous |-> contiguous,
               result_image |-> result_image, hasStat |-> hasStat] IN
  /\ XferCall(i, name, size, contiguous, hasStat)
  /\ \A j \in XImages :
       x_pc[j] = "coll" => [x_call[j] EXCEPT !.hasStat = hasStat] = call
  /\ IF one_transfer(rank, contiguous)
     THEN /\ x_coll' = Bump(x_coll, i, 1)
          /\ x_pc' = [x_pc EXCEPT ![i] = "coll"]
          /\ x_call' = [x_call EXCEPT ![i] = call]
          /\ UNCHANGED x_stat
     ELSE IF size = 0
     THEN /\ x_stat' = [x_stat EXCEPT ![i] = IF hasStat THEN 0 ELSE @]
          /\ UNCHANGED <<x_coll, x_pc, x_call>>
     ELSE /\ x_coll' = Bump(x_coll, i, size)
          /\ x_pc' = [x_pc EXCEPT ![i] = "coll"]
          /\ x_call' = [x_call EXCEPT ![i] = call]
          /\ UNCHANGED x_stat
  /\ UNCHANGED <<x_mem, x_buf, x_win_locks, x_rma, pending_puts>>

co_sum(i, a, contiguous, result_image, hasStat) ==
  internal_co_reduce(i, "co_sum", a, contiguous, result_image, hasStat)

co_min(i, a, contiguous, result_image, hasStat) ==
  internal_co_reduce(i, "co_min", a, contiguous, result_image, hasStat)

co_max(i, a, contiguous, result_image, hasStat) ==
  internal_co_reduce(i, "co_max", a, contiguous, result_image, hasStat)

\* MPI_SUM, MPI_MIN, MPI_MAX on two values.
MPI_Op(name, a, b) ==
  IF name = "co_sum" THEN a + b
  ELSE IF name = "co_min" THEN (IF a < b THEN a ELSE b)
  ELSE (IF a < b THEN b ELSE a)

\* The reduction of element e over the images 1 .. n.
RECURSIVE MPI_Reduce(_, _, _)
MPI_Reduce(name, e, n) ==
  IF n = 1 THEN x_buf[1][e] ELSE MPI_Op(name, MPI_Reduce(name, e, n - 1), x_buf[n][e])

\* The collective of a reduction completes with every image in it; each
\* image goes through co_reduce_cleanup and returns.
co_reduce_cleanup ==
  LET c == x_call[1] IN
  /\ \A j \in XImages : x_pc[j] = "coll"
  /\ x_buf' = [j \in XImages |-> [e \in XElems |->
                 IF e <= c.size /\ c.result_image \in {0, j}
                 THEN MPI_Reduce(c.op, e, XferImages) ELSE x_buf[j][e]]]
  /\ x_stat' = [j \in XImages |-> IF x_call[j].hasStat THEN 0 ELSE x_stat[j]]
  /\ x_pc' = [j \in XImages |-> "idle"]
  /\ x_call' = [j \in XImages |-> NoCall]
  /\ x_last' = NoXLast
  /\ UNCHANGED <<x_mem, x_win_locks, x_rma, x_coll, pending_puts, x_build, x_ops_left>>

XferIdle ==
  /\ x_mem = [j \in XImages |-> [e \in XElems |-> 0]]
  /\ x_buf = [i \in XImages |-> [e \in XElems |-> i]]
  /\ x_win_locks = [j \in XImages |-> 0]
  /\ x_rma = [j \in XImages |-> 0]
  /\ x_coll = [i \in XImages |-> 0]
  /\ pending_puts = [i \in XImages |-> <<>>]
  /\ x_stat = [i \in XImages |-> NoValue]
  /\ x_pc = [i \in XImages |-> "idle"]
  /\ x_call = [i \in XImages |-> NoCall]
  /\ x_last = NoXLast
  /\ x_build = "MPI_Win_flush"
  /\ x_ops_left = 0

\* The coarray holds 0 everywhere, the local array of image i holds i, no
\* stat variable has been assigned; the build is one of the three.
XferInit ==
  /\ x_mem = [j \in XImages |-> [e \in XElems |-> 0]]
  /\ x_buf = [i \in XImages |-> [e \in XElems |-> i]]
  /\ x_win_locks = [j \in XImages |-> 0]
  /\ x_rma = [j \in XImages |-> 0]
  /\ x_coll = [i \in XImages |-> 0]
  /\ pending_puts = [i \in XImages |-> <<>>]
  /\ x_stat = [i \in XImages |-> NoValue]
  /\ x_pc = [i \in XImages |-> "idle"]
  /\ x_call = [i \in XImages |-> NoCall]
  /\ x_last = NoXLast
  /\ x_build \in Builds
  /\ x_ops_left = MaxOps

XferNext ==
  \/ \E i \in XImages, image_index \in XImages, dest \in Descriptors,
        contiguous \in BOOLEAN :
       send(i, image_index, dest, contiguous) /\ UNCHANGED notXferVars
  \/ \E i \in XImages, image_index \in XImages, dest \in Descriptors,
        contiguous \in BOOLEAN :
       get(i, image_index, dest, contiguous) /\ UNCHANGED notXferVars
  \/ \E i \in XImages, image_index_s \in XImages, image_index_g \in XImages,
        dest \in Descriptors, contiguous \in BOOLEAN :
       sendget(i, image_index_s, image_index_g, dest, contiguous)
       /\ UNCHANGED notXferVars
  \/ \E i \in XImages : sync_memory(i) /\ UNCHANGED notXferVars
  \/ \E i \in XImages, a \in Descriptors, contiguous \in BOOLEAN,
        result_image \in 0 .. XferImages, hasStat \in BOOLEAN :
       co_sum(i, a, contiguous, result_image, hasStat) /\ UNCHANGED notXferVars
  \/ \E i \in XImages, a \in Descriptors, contiguous \in BOOLEAN,
        result_image \in 0 .. XferImages, hasStat \in BOOLEAN :
       co_min(i, a, contiguous, result_image, hasStat) /\ UNCHANGED notXferVars
  \/ \E i \in XImages, a \in Descriptors, contiguous \in BOOLEAN,
        result_image \in 0 .. XferImages, hasStat \in BOOLEAN :
       co_max(i, a, contiguous, result_image, hasStat) /\ UNCHANGED notXferVars
  \/ co_reduce_cleanup /\ UNCHANGED notXferVars

(***************************************************************************)
(* Claims about zero-count transfers and reductions.                       *)
(***************************************************************************)
\* The step enters a call of one of the operations in ops on an array whose
\* computed element count is 0.
ZeroCountCall(ops) == x_last'.op \in ops /\ x_last'.size = 0

\* The step ends a collective every image had entered with count 0.
ZeroCountCollective ==
  /\ \A j \in XImages : x_pc[j] = "coll" /\ x_call[j].size = 0
  /\ \A j \in XImages : x_pc'[j] = "idle"

\* C10 as stated: a send, get, sendget or co_* reduction on an array whose
\* computed element count is 0 changes no memory on any image, acquires no
\* window lock, issues no RMA and no collective, appends nothing to the
\* pending-put FIFO and leaves stat unchanged.
C10_ZeroCountNoOp ==
  [][ZeroCountCall(Transfers \cup Reductions) =>
        UNCHANGED <<x_mem, x_buf, x_win_locks, x_rma, x_coll, pending_puts, x_stat>>]_vars

\* C10 amended: a send, get or sendget on an array whose computed element
\* count is 0 changes no memory on any image, acquires no window lock, issues
\* no RMA and no collective, appends nothing to the pending-put FIFO and
\* leaves stat unchanged.  A co_* reduction on such an array changes no
\* memory, acquires no window lock, issues no RMA and appends nothing to the
\* FIFO; for a contiguous array it enters one collective with count 0; when
\* it returns it has set stat, if present, to 0.
C10_ZeroCountTransfers ==
  [][/\ ZeroCountCall(Transfers) =>
          UNCHANGED <<x_mem, x_buf, x_win_locks, x_rma, x_coll, pending_puts, x_stat,
                      x_pc, x_call>>
     /\ ZeroCountCall(Reductions) =>
          /\ UNCHANGED <<x_mem, x_buf, x_win_locks, x_rma, pending_puts>>
          /\ IF x_last'.contiguous
             THEN /\ x_coll' = Bump(x_coll, x_last'.img, 1)
                  /\ x_pc'[x_last'.img] = "coll"
                  /\ UNCHANGED x_stat
             ELSE /\ UNCHANGED <<x_coll, x_pc>>
                  /\ x_stat' = [x_stat EXCEPT ![x_last'.img] =
                                  IF x_last'.hasStat THEN 0 ELSE @]
     /\ ZeroCountCollective =>
          /\ UNCHANGED <<x_mem, x_buf, x_win_locks, x_rma, x_coll, pending_puts>>
          /\ x_stat' = [j \in XImages |-> IF x_call[j].hasStat THEN 0 ELSE x_stat[j]]
    ]_vars

\* C10 witness: image 2 has made a reduction with stat on a non-contiguous
\* array of count 0 (its stat is 0 and it has entered no collective), and
\* image 1 has just made a send of count 0: no memory has changed and nothing
\* was issued.
C10_Witness ==
  /\ x_last.op = "send" /\ x_last.size = 0 /\ x_last.img = 1
  /\ x_stat[2] = 0 /\ x_coll[2] = 0 /\ x_stat[1] = NoValue
  /\ x_build = "NONBLOCKING_PUT" /\ pending_puts[1] = <<>>
  /\ \A j \in XImages : x_rma[j] = 0 /\ x_win_locks[j] = 0

(***************************************************************************)
(*             SEND AND GET OF ARRAY SECTIONS TO AND FROM A PEER            *)
(*                                                                         *)
(* Image 1 sends a section of its local array A to a section of a peer's   *)
(* part of a coarray and gets a section of the peer's part into its local  *)
(* array B.  Arrays are addressed in elements from their base; a           *)
(* descriptor is the offset of its first element and its dimensions, each  *)
(* with lower_bound, ubound (_ubound) and stride (_stride).  Source and    *)
(* destination have the same type, kind, element size and shape.  Build    *)
(* without STRIDED and without WITH_FAILED_IMAGES.                         *)
(***************************************************************************)
ParentExtent == 4
MaxStep == 2
SecCells == 0 .. ParentExtent * ParentExtent - 1

\* The descriptors of one dimension of the sections of an array whose
\* extent in that dimension is pextent and whose stride there is pstride:
\* first element s, every t-th element, n elements.
SecDim(pstride, pextent) ==
  {[start |-> s * pstride,
    d |-> [lower_bound |-> 1, ubound |-> n, stride |-> t * pstride]] :
     <<s, t, n>> \in {c \in (0 .. 1) \X (1 .. MaxStep) \X {1, 2, pextent} :
                        c[1] + (c[3] - 1) * c[2] <= pextent - 1}}

\* Scalars, sections of vectors and sections of matrices with 2 or
\* ParentExtent rows.
Sections ==
  {[off |-> s, dim |-> <<>>] : s \in 0 .. 1}
  \cup {[off |-> a.start, dim |-> <<a.d>>] : a \in SecDim(1, ParentExtent)}
  \cup UNION {{[off |-> a.start + b.start, dim |-> <<a.d, b.d>>] :
                 a \in SecDim(1, p), b \in SecDim(p, ParentExtent)} :
              p \in {2, ParentExtent}}

\* The extents of a descriptor, as the transfer loops take them.
sec_extent(d) == d.ubound - d.lower_bound + 1

Shape(desc) == [j \in 1 .. Len(desc.dim) |-> sec_extent(desc.dim[j])]

\* The pairs of a local and a remote section a transfer can have.
SectionPairs == {p \in Sections \X Sections : Shape(p[1]) = Shape(p[2])}

\* tot_ext after the first j dimensions.
RECURSIVE tot_ext(_, _)
tot_ext(dim, j) == IF j = 0 THEN 1 ELSE tot_ext(dim, j - 1) * sec_extent(dim[j])

\* PREFIX(is_contiguous): the elements lie one after the other.
is_contiguous(desc) ==
  \A j \in 1 .. Len(desc.dim) : desc.dim[j].stride = tot_ext(desc.dim, j - 1)

\* The loop over the dimensions below the last.
RECURSIVE array_offset_loop(_, _, _)
array_offset_loop(dim, n, i) ==
  IF n = 0 THEN 0
  ELSE array_offset_loop(dim, n - 1, i)
       + ((i \div tot_ext(dim, n - 1)) % sec_extent(dim[n])) * dim[n].stride

\* array_offset_dst / array_offset_sr of element i in a descriptor of rank > 0.
array_offset(dim, rank, i) ==
  array_offset_loop(dim, rank - 1, i)
  + (i \div tot_ext(dim, rank - 1)) * dim[rank].stride

\* A plausible slip: the offset of the section in the window is left out.
dst_offset_no_base(offset, dim, rank, i) == array_offset(dim, rank, i)

\* send: dst_offset, where element i goes in the peer's window.
dst_offset(offset, dim, rank, i) == offset + array_offset(dim, rank, i)

\* A plausible slip: the last dimension is not unravelled.
sr_off_flat(offset, dim, rank, i) ==
  offset + array_offset_loop(dim, rank - 1, i) + i * dim[rank].stride

\* get: sr_off, where element i comes from in the peer's window.
sr_off(offset, dim, rank, i) == offset + array_offset(dim, rank, i)

\* mem after the writes ws, each [at, val].
SecApply(mem, ws) ==
  [k \in SecCells |-> IF \E w \in ws : w.at = k
                      THEN (CHOOSE w \in ws : w.at = k).val ELSE mem[k]]

NoDesc == <<>>

NoGot == [desc |-> <<>>, from |-> <<>>, path |-> "none", synced |-> FALSE]

\* The MPI_Put calls of PREFIX(send) with source descriptor S and destination
\* descriptor D: one for the whole array on the fast path, else one per
\* element.
send_puts(S, D) ==
  LET rank == Len(D.dim)
      size == xfer_size(rank, D.dim) IN
  IF one_transfer(rank, is_contiguous(D) /\ is_contiguous(S))
  THEN {[at |-> D.off + k, val |-> t_A[S.off + k]] : k \in 0 .. size - 1}
  ELSE {[at |-> dst_offset(D.off, D.dim, rank, i),
         val |-> t_A[S.off + array_offset(S.dim, rank, i)]] : i \in 0 .. size - 1}

\* PREFIX(send) of section S of A to section D at the peer.  The puts are
\* complete at the peer on return, except on the fast path of the
\* NONBLOCKING_PUT build, which leaves them to a later flush.
sec_send(S, D) ==
  LET rank == Len(D.dim) IN
  /\ t_pc = "start"
  /\ t_pc' = "sent"
  /\ t_desc' = <<S, D>>
  /\ IF t_build = "NONBLOCKING_PUT"
        /\ one_transfer(rank, is_contiguous(D) /\ is_contiguous(S))
     THEN t_pending' = send_puts(S, D) /\ UNCHANGED t_win
     ELSE t_win' = SecApply(t_win, send_puts(S, D)) /\ UNCHANGED t_pending
  /\ UNCHANGED <<t_A, t_B, t_build, t_got>>

\* A pending MPI_Put completes at the peer when MPI gets to it.
MPI_Put_complete ==
  /\ t_pending # {}
  /\ t_win' = SecApply(t_win, t_pending)
  /\ t_pending' = {}
  /\ UNCHANGED <<t_pc, t_A, t_B, t_desc, t_build, t_got>>

\* PREFIX(sync_memory) after the send: explicit_flush completes what is
\* pending.
sec_sync_memory ==
  /\ t_pc = "sent"
  /\ t_pc' = "synced"
  /\ t_win' = SecApply(t_win, t_pending)
  /\ t_pending' = {}
  /\ UNCHANGED <<t_A, t_B, t_desc, t_build, t_got>>

\* The MPI_Get calls of PREFIX(get) with source descriptor D at the peer and
\* destination descriptor S, as writes to B.
get_gets(S, D) ==
  LET rank == Len(D.dim)
      size == xfer_size(rank, S.dim) IN
  IF one_transfer(rank, is_contiguous(S) /\ is_contiguous(D))
  THEN {[at |-> S.off + k, val |-> t_win[D.off + k]] : k \in 0 .. size - 1}
  ELSE {[at |-> S.off + array_offset(S.dim, rank, i),
         val |-> t_win[sr_off(D.off, D.dim, rank, i)]] : i \in 0 .. size - 1}

\* PREFIX(get) of section D at the peer into section S of B; after a send it
\* is made with the descriptors of the send.
sec_get(S, D) ==
  LET rank == Len(D.dim) IN
  /\ t_pc \in {"start", "sent", "synced"}
  /\ t_pc' = "got"
  /\ t_B' = SecApply(t_B, get_gets(S, D))
  /\ t_got' = [desc |-> <<S, D>>, from |-> t_win,
               path |-> IF one_transfer(rank, is_contiguous(S) /\ is_contiguous(D))
                        THEN "one" ELSE "each",
               synced |-> t_pc = "synced"]
  /\ UNCHANGED <<t_A, t_win, t_pending, t_desc, t_build>>

SecIdle ==
  /\ t_pc = "got"
  /\ t_A = <<>>
  /\ t_B = <<>>
  /\ t_win = <<>>
  /\ t_pending = {}
  /\ t_desc = NoDesc
  /\ t_build = "MPI_Win_flush"
  /\ t_got = NoGot

\* A holds a different value in every element, the peer's part holds values
\* of its own, B holds none of them.
SecInit ==
  /\ t_pc = "start"
  /\ t_A = [k \in SecCells |-> k + 1]
  /\ t_B = [k \in SecCells |-> NoValue]
  /\ t_win = [k \in SecCells |-> 100 + k]
  /\ t_pending = {}
  /\ t_desc = NoDesc
  /\ t_build \in Builds
  /\ t_got = NoGot

SecNext ==
  \/ \E p \in SectionPairs : sec_send(p[1], p[2]) /\ UNCHANGED notSecVars
  \/ MPI_Put_complete /\ UNCHANGED notSecVars
  \/ sec_sync_memory /\ UNCHANGED notSecVars
  \/ \E p \in (IF t_pc = "start" THEN SectionPairs ELSE {t_desc}) :
       sec_get(p[1], p[2]) /\ UNCHANGED notSecVars

(***************************************************************************)
(* Claims about transfers of sections.                                     *)
(***************************************************************************)
\* The row-major unravel of linear index i in dimension j (from 1), and the
\* offset of element i it gives with the strides of the descriptor.
Unravel(dim, i, j) == (i \div tot_ext(dim, j - 1)) % sec_extent(dim[j])

RECURSIVE UnravelOffset(_, _, _)
UnravelOffset(dim, i, j) ==
  IF j = 0 THEN 0 ELSE UnravelOffset(dim, i, j - 1) + Unravel(dim, i, j) * dim[j].stride

\* The offsets of the elements of a section, in the order of the transfer.
SecOffsets(desc) ==
  [i \in 0 .. xfer_size(Len(desc.dim), desc.dim) - 1 |->
     desc.off + UnravelOffset(desc.dim, i, Len(desc.dim))]

C12_StridedGet ==
  (t_pc = "got" /\ t_got.path = "each") =>
     LET src == SecOffsets(t_got.desc[2])
         dst == SecOffsets(t_got.desc[1]) IN
     \A i \in DOMAIN dst : t_B[dst[i]] = t_got.from[src[i]]

\* C12 witness: the section [1:4:2, 1:4:2] of a 4 x 4 source with strides
\* (1, 4) has been read into a 2 x 2 destination: B holds the source elements
\* at the linear indices 0, 2, 8 and 10.
C12_Witness ==
  /\ t_pc = "got" /\ t_got.path = "each"
  /\ t_got.desc[2] = [off |-> 0,
                      dim |-> <<[lower_bound |-> 1, ubound |-> 2, stride |-> 2],
                                [lower_bound |-> 1, ubound |-> 2, stride |-> 8]>>]
  /\ t_got.desc[1] = [off |-> 0,
                      dim |-> <<[lower_bound |-> 1, ubound |-> 2, stride |-> 1],
                                [lower_bound |-> 1, ubound |-> 2, stride |-> 2]>>]
  /\ t_B[0] = t_got.from[0] /\ t_B[1] = t_got.from[2]
  /\ t_B[2] = t_got.from[8] /\ t_B[3] = t_got.from[10]
  /\ t_B[0] = 100 /\ t_B[1] = 102 /\ t_B[2] = 108 /\ t_B[3] = 110

(***************************************************************************)
(* SEND BETWEEN ELEMENTS OF DIFFERENT SIZE OR KIND  (mpi_caf.c 1680-2014)  *)
(*                                                                         *)
(* The part of send that depends on GFC_DESCRIPTOR_SIZE, the type and the  *)
(* kinds: memory is a map from byte addresses to bytes and a value is the  *)
(* sequence of its bytes, least significant first (a little-endian host).  *)
(* An array here has rank 1, NElems elements and stride 1, so that both    *)
(* descriptors are contiguous and the source and the destination conform.  *)
(* Image 1 is the caller.  The bytes lying behind the source array are not *)
(* the program's to read; what a read of them returns is a choice made in  *)
(* the initial state (garbage).                                            *)
(***************************************************************************)
NElems == 2

SPACE == 32

ByteCells == 0 .. NElems * 8 - 1

ByteDim == <<[lower_bound |-> 1, ubound |-> NElems, stride |-> 1]>>

RECURSIVE Flatten(_)
Flatten(seqs) == IF seqs = <<>> THEN <<>> ELSE Head(seqs) \o Flatten(Tail(seqs))

\* One character of the given kind, as bytes.
CharUnit(kind, c) == IF kind = 1 THEN <<c>> ELSE <<c, 0, 0, 0>>

\* The strings of a given length the source elements are drawn from.
Strings(len) == IF len = 1 THEN {<<65>>, <<66>>} ELSE {<<65, 66>>, <<66, 65>>}

EncodeString(kind, str) == Flatten([j \in 1 .. Len(str) |-> CharUnit(kind, str[j])])

\* The integers the source elements are drawn from: 1, -2 and, with eight
\* bytes, 2^32.
Integers4 == {<<1, 0, 0, 0>>, <<254, 255, 255, 255>>}

Integers8 == {<<1, 0, 0, 0, 0, 0, 0, 0>>, <<254, 255, 255, 255, 255, 255, 255, 255>>,
              <<0, 0, 0, 0, 1, 0, 0, 0>>}

Garbage == {0, SPACE, 255}

ByteTargets == {[image_index |-> 1, mrt |-> FALSE], [image_index |-> 1, mrt |-> TRUE],
                [image_index |-> 2, mrt |-> FALSE]}

CharacterCalls ==
  {[type |-> "BT_CHARACTER", src_kind |-> kind, dst_kind |-> kind,
    src_size |-> sl * kind, dst_size |-> dl * kind, rank |-> rank,
    this_image |-> 1, image_index |-> t.image_index, mrt |-> t.mrt, offset |-> 0,
    data |-> [j \in DOMAIN strs |-> EncodeString(kind, strs[j])], garbage |-> g] :
     kind \in {1, 4}, sl \in 1 .. 2, dl \in 1 .. 2, rank \in 0 .. 1, t \in ByteTargets,
     g \in Garbage,
     strs \in UNION {[1 .. n -> Strings(l)] : n \in 1 .. NElems, l \in 1 .. 2}}

IntegerCalls ==
  {[type |-> "BT_INTEGER", src_kind |-> sk, dst_kind |-> dk,
    src_size |-> sk, dst_size |-> dk, rank |-> rank,
    this_image |-> 1, image_index |-> t.image_index, mrt |-> t.mrt, offset |-> 0,
    data |-> vals, garbage |-> g] :
     sk \in {4, 8}, dk \in {4, 8}, rank \in 0 .. 1, t \in ByteTargets, g \in Garbage,
     vals \in UNION {[1 .. n -> Integers4 \cup Integers8] : n \in 1 .. NElems}}

\* size, 1702-1709, for the descriptors of this section.
byte_size(c) == IF c.rank = 0 THEN 1 ELSE NElems

\* The calls whose source holds size elements of src_size bytes each.
ByteCalls ==
  {c \in CharacterCalls \cup IntegerCalls :
     /\ Len(c.data) = byte_size(c)
     /\ \A j \in DOMAIN c.data : Len(c.data[j]) = c.src_size}

NoByteCall == [type |-> "none"]

ReadBytes(mem, at, n) == [j \in 1 .. n |-> mem[at + j - 1]]

WriteBytes(mem, at, bytes) ==
  [k \in DOMAIN mem |-> IF k >= at /\ k < at + Len(bytes) THEN bytes[k - at + 1] ELSE mem[k]]

\* pad_str, 1716-1724: dst_size - src_size bytes of spaces of the destination
\* kind, or nothing (NULL).
pad_str(c) ==
  IF c.type = "BT_CHARACTER" /\ c.dst_size > c.src_size
  THEN IF c.dst_kind = 1
       THEN [j \in 1 .. c.dst_size - c.src_size |-> SPACE]
       ELSE Flatten([j \in 1 .. (c.dst_size - c.src_size) \div 4 |-> CharUnit(4, SPACE)])
  ELSE <<>>

\* The condition at 1725-1729; source and destination have the same type and
\* rank here and are contiguous.
one_put(c) ==
  \/ c.rank = 0
  \/ /\ c.dst_kind = c.src_kind
     /\ c.rank # 0
     /\ (c.type # "BT_CHARACTER" \/ c.dst_size = c.src_size)

smaller_size(c) == IF c.dst_size > c.src_size THEN c.src_size ELSE c.dst_size

\* 1741-1753: the put of the elements, made only when the kinds agree, and the
\* put of the padding behind them.
put_contiguous(c, src, dst) ==
  LET n == smaller_size(c) * byte_size(c)
      put == IF c.dst_kind = c.src_kind
             THEN WriteBytes(dst, c.offset, ReadBytes(src, 0, n)) ELSE dst
  IN  IF pad_str(c) # <<>> THEN WriteBytes(put, c.offset + n, pad_str(c)) ELSE put

\* 1963-1967, element i: dst_size bytes are put from sr to dst_offset and the
\* padding is put to dst_offset as well.  The two puts overlap and belong to
\* one epoch, so either may land last.
put_element(c, src, dst, i, pad_last) ==
  LET at == dst_offset(c.offset, ByteDim, 1, i) * c.dst_size
      sr == array_offset(ByteDim, 1, i) * c.src_size
      put == WriteBytes(dst, at, ReadBytes(src, sr, c.dst_size))
  IN  IF pad_str(c) # <<>> /\ pad_last THEN WriteBytes(put, at, pad_str(c)) ELSE put

RECURSIVE put_elements(_, _, _, _, _)
put_elements(c, src, dst, n, pad_last) ==
  IF n = 0 THEN dst
  ELSE put_element(c, src, put_elements(c, src, dst, n - 1, pad_last), n - 1, pad_last[n - 1])

\* 1954 and 2003: src_size bytes of element i are moved to base + dst_offset,
\* where base is dest->base_addr without mrt and src->base_addr with it.
RECURSIVE move_elements(_, _, _, _)
move_elements(c, src, mem, n) ==
  IF n = 0 THEN mem
  ELSE WriteBytes(move_elements(c, src, mem, n - 1),
                  dst_offset(c.offset, ByteDim, 1, n - 1) * c.dst_size,
                  ReadBytes(src, array_offset(ByteDim, 1, n - 1) * c.src_size, c.src_size))

\* send, 1680-2014.
send_bytes ==
  /\ b_pc = "start"
  /\ b_pc' = "done"
  /\ LET c == b_call
         size == byte_size(c)
     IN  IF one_put(c)
         THEN IF c.this_image = c.image_index
              THEN /\ b_dst' = WriteBytes(b_dst, 0, ReadBytes(b_src, 0, size * c.dst_size))
                   /\ b_src' = b_src
                   /\ b_fault' = FALSE
              ELSE /\ b_dst' = put_contiguous(c, b_src, b_dst)
                   /\ b_src' = b_src
                   /\ b_fault' = FALSE
         ELSE IF c.this_image = c.image_index
              THEN IF ~c.mrt
                   THEN /\ b_dst' = move_elements(c, b_src, b_dst, size)
                        /\ b_src' = b_src
                        /\ b_fault' = (c.src_size > c.dst_size)
                   ELSE /\ b_src' = move_elements(c, b_src, b_src, size)
                        /\ b_dst' = b_dst
                        /\ b_fault' = TRUE
              ELSE /\ \E pad_last \in [0 .. size - 1 -> BOOLEAN] :
                        b_dst' = put_elements(c, b_src, b_dst, size, pad_last)
                   /\ b_src' = b_src
                   /\ b_fault' = FALSE
  /\ UNCHANGED b_call

ByteIdle ==
  /\ b_pc = "idle" /\ b_call = NoByteCall /\ b_src = <<>> /\ b_dst = <<>> /\ b_fault = FALSE

ByteInit ==
  /\ b_pc = "start"
  /\ b_call \in ByteCalls
  /\ b_src = [k \in ByteCells |->
                IF k < Len(Flatten(b_call.data)) THEN Flatten(b_call.data)[k + 1]
                ELSE b_call.garbage]
  /\ b_dst = [k \in ByteCells |-> NoValue]
  /\ b_fault = FALSE

ByteNext ==
  \/ send_bytes /\ UNCHANGED notByteVars

\* The bytes of destination element i after the send.
DestElement(i) == ReadBytes(b_dst, i * b_call.dst_size, b_call.dst_size)

\* The spaces a destination element ends with when the source is shorter.
Spaces(kind, n) == Flatten([j \in 1 .. n |-> CharUnit(kind, SPACE)])

\* C13: after a send of CHARACTER elements of size n into CHARACTER elements of
\* size m > n, every destination element holds the n source code units followed
\* by m - n spaces of the destination kind.
C13_Padded ==
  (b_pc = "done" /\ b_call.type = "BT_CHARACTER" /\ b_call.dst_size > b_call.src_size) =>
     \A i \in 0 .. byte_size(b_call) - 1 :
        DestElement(i) =
           b_call.data[i + 1]
           \o Spaces(b_call.dst_kind, (b_call.dst_size - b_call.src_size) \div b_call.dst_kind)

\* An INTEGER*4 value as an INTEGER*8 value.
SignExtend(v) == v \o [j \in 1 .. 4 |-> IF v[4] >= 128 THEN 255 ELSE 0]

\* The low 32 bits of an INTEGER*8 value.
Low32(v) == SubSeq(v, 1, 4)

\* C14: after a send of INTEGER*4 elements into INTEGER*8 elements every
\* destination element holds the source value sign-extended, and after a send
\* of INTEGER*8 elements into INTEGER*4 elements its low 32 bits.
C14_Converted ==
  (b_pc = "done" /\ b_call.type = "BT_INTEGER" /\ b_call.src_kind # b_call.dst_kind) =>
     \A i \in 0 .. byte_size(b_call) - 1 :
        DestElement(i) = IF b_call.src_kind = 4 THEN SignExtend(b_call.data[i + 1])
                         ELSE Low32(b_call.data[i + 1])

(***************************************************************************)
(* GET_BY_REF  (mpi_caf.c 2615-3644)                                       *)
(*                                                                         *)
(* _gfortran_caf_get_by_ref with a reference chain of one CAF_REF_ARRAY    *)
(* into a coarray whose descriptor is held in the token: the pass over the *)
(* reference that computes size and checks or sets the bounds of dst, the  *)
(* allocation of dst, and get_for_ref, which fetches the elements.  Types  *)
(* and kinds of source and destination agree, so copy_data is one MPI_Get  *)
(* per element.  Dimensions are counted from 0 as in the code; the element *)
(* at offset k of the remote array holds RemoteValue(k).  The bounds of a  *)
(* destination that has no memory yet are whatever the caller left there.  *)
(***************************************************************************)
Bounds(lb, ub, stride) == [lower_bound |-> lb, ubound |-> ub, stride |-> stride]

\* mpi_token->desc: the remote array, 3 or 3 x 2 elements.
RefSources == {<<Bounds(1, 3, 1)>>, <<Bounds(1, 3, 1), Bounds(1, 2, 3)>>}

RemoteValue(k) == 100 + k

ArrRef(mode, start, end, stride, vector) ==
  [mode |-> mode, start |-> start, end |-> end, stride |-> stride, vector |-> vector]

\* riter->u.a.mode[i] and riter->u.a.dim[i] for a dimension with bounds sd.
ArrRefs(sd) ==
  LET I == sd.lower_bound .. sd.ubound IN
       {ArrRef("CAF_ARR_REF_SINGLE", s, s, 1, <<>>) : s \in I}
  \cup {ArrRef("CAF_ARR_REF_FULL", 0, 0, st, <<>>) : st \in 1 .. 2}
  \cup {ArrRef("CAF_ARR_REF_RANGE", s, e, st, <<>>) : s \in I, e \in I, st \in 1 .. 2}
  \cup {ArrRef("CAF_ARR_REF_OPEN_END", s, 0, 1, <<>>) : s \in I}
  \cup {ArrRef("CAF_ARR_REF_OPEN_START", 0, e, 1, <<>>) : e \in I}
  \cup {ArrRef("CAF_ARR_REF_VECTOR", 0, 0, 1, v) : v \in UNION {[1 .. n -> I] : n \in 1 .. 2}}

\* The rank of the object the reference designates.
RefRank(ref) == Cardinality({j \in DOMAIN ref : ref[j].mode # "CAF_ARR_REF_SINGLE"})

\* What dst->dim holds while dst->base_addr is NULL.
UnsetBounds == {Bounds(0, 0 - 1, 0), Bounds(1, 2, 1)}

\* The bounds of a destination of the given rank that has memory.
RECURSIVE PackedBounds(_, _)
PackedBounds(ext, j) ==
  IF j = 0 THEN <<>>
  ELSE LET below == PackedBounds(ext, j - 1)
           stride == IF j = 1 THEN 1
                     ELSE below[j - 1].stride * (below[j - 1].ubound - below[j - 1].lower_bound + 1)
       IN  Append(below, Bounds(1, ext[j], stride))

RefDests(rank) ==
       {[base_addr |-> "NULL", dim |-> [j \in 1 .. rank |-> u]] : u \in UnsetBounds}
  \cup {[base_addr |-> "old", dim |-> PackedBounds(ext, rank)] : ext \in [1 .. rank -> 1 .. 3]}

\* The references with one subscript per dimension of src, within its bounds.
RefsOf(src) ==
  IF Len(src) = 1 THEN {<<a>> : a \in ArrRefs(src[1])}
  ELSE {<<a, b>> : a \in ArrRefs(src[1]), b \in ArrRefs(src[2])}

NoRefCall == [src |-> <<>>]

NoDst == [base_addr |-> "NULL", dim |-> <<>>]

\* COMPUTE_NUM_ITEMS, 2683-2689; 0 stands for the return it makes when there is
\* no item.
COMPUTE_NUM_ITEMS(stride, lb, ub) ==
  LET abs_stride == IF stride > 0 THEN stride ELSE 0 - stride
      num == IF stride > 0 THEN ub + 1 - lb ELSE lb + 1 - ub
  IN  IF num <= 0 \/ abs_stride < 1 THEN 0
      ELSE IF abs_stride > 1 THEN 1 + (num - 1) \div abs_stride ELSE num

\* GFC_DESCRIPTOR_EXTENT, 2695-2696.
GFC_DESCRIPTOR_EXTENT(dim, i) == dim[i + 1].ubound + 1 - dim[i + 1].lower_bound

\* delta, 3256-3329.
ref_delta(m, sd) ==
  CASE m.mode = "CAF_ARR_REF_VECTOR" -> Len(m.vector)
    [] m.mode = "CAF_ARR_REF_FULL" -> COMPUTE_NUM_ITEMS(m.stride, sd.lower_bound, sd.ubound)
    [] m.mode = "CAF_ARR_REF_RANGE" -> COMPUTE_NUM_ITEMS(m.stride, m.start, m.end)
    [] m.mode = "CAF_ARR_REF_SINGLE" -> 1
    [] m.mode = "CAF_ARR_REF_OPEN_END" -> COMPUTE_NUM_ITEMS(m.stride, m.start, sd.ubound)
    [] m.mode = "CAF_ARR_REF_OPEN_START" -> COMPUTE_NUM_ITEMS(m.stride, sd.lower_bound, m.end)

\* 3431-3435.
ref_advance(st, dst_rank, delta) ==
  [st EXCEPT !.dst_cur_dim = IF st.in_array_ref /\ @ < dst_rank THEN @ + 1 ELSE @,
             !.size = @ * delta]

\* One turn of the loop at 3254-3436, for dimension i of the reference.
ref_dim(c, st, i) ==
  LET delta == ref_delta(c.ref[i + 1], c.src[i + 1])
      dst_rank == Len(c.dst.dim)
      realloc_required == c.dst.base_addr = "NULL"
  IN  IF st.out # "none" THEN st
      ELSE IF delta <= 0 THEN [st EXCEPT !.out = "returned"]
      ELSE IF delta > 1 /\ dst_rank = 0 THEN [st EXCEPT !.out = "extentoutofrange"]
      ELSE IF dst_rank = 0 THEN ref_advance(st, dst_rank, delta)
      ELSE IF st.dst_cur_dim >= dst_rank /\ delta # 1 THEN [st EXCEPT !.out = "rankoutofrange"]
      ELSE IF delta = 1 THEN ref_advance(st, dst_rank, delta)
      ELSE IF ~st.in_array_ref /\ st.array_extent_fixed THEN [st EXCEPT !.out = "doublearrayref"]
      ELSE LET lead == ~st.in_array_ref /\ i > 0 /\ dst_rank = Len(c.src)
               dim1 == IF lead /\ c.dst_reallocatable
                       THEN [j \in DOMAIN st.dim |-> IF j <= i THEN Bounds(1, 1, 1) ELSE st.dim[j]]
                       ELSE st.dim
               cur == IF lead THEN i ELSE st.dst_cur_dim
               extent_mismatch == realloc_required \/ GFC_DESCRIPTOR_EXTENT(dim1, cur) # delta
               needed == realloc_required \/ st.realloc_needed \/ extent_mismatch
           IN  IF needed /\ ~c.dst_reallocatable
               THEN [st EXCEPT !.out = "nonallocextentmismatch"]
               ELSE ref_advance(
                      [st EXCEPT !.in_array_ref = TRUE,
                                 !.dst_cur_dim = cur,
                                 !.realloc_needed = needed,
                                 !.dim = IF extent_mismatch
                                         THEN [dim1 EXCEPT ![cur + 1] = Bounds(1, delta, st.size)]
                                         ELSE dim1],
                      dst_rank, delta)

\* The loop over the dimensions of the reference, 3254-3441.
RECURSIVE ref_dims(_, _, _)
ref_dims(c, st, n) == IF n = 0 THEN st ELSE ref_dim(c, ref_dims(c, st, n - 1), n - 1)

\* The state of the pass before the first dimension, 3133-3160 and 3172.
ref_start(c) ==
  [dim |-> c.dst.dim, dst_cur_dim |-> 0, size |-> 1, in_array_ref |-> FALSE,
   array_extent_fixed |-> FALSE, realloc_needed |-> c.dst.base_addr = "NULL", out |-> "none"]

\* The pass over the reference, 3176-3597.
ref_pass(c) ==
  LET st == ref_dims(c, ref_start(c), Len(c.ref))
  IN  [st EXCEPT !.array_extent_fixed = st.in_array_ref, !.in_array_ref = FALSE]

\* 3605-3623: the bounds and the memory of a destination that is reallocated.
ref_alloc(c, st) ==
  IF st.realloc_needed
  THEN [base_addr |-> "new",
        dim |-> IF ~st.array_extent_fixed
                THEN [j \in DOMAIN st.dim |-> Bounds(1, 1, 1)] ELSE st.dim]
  ELSE [base_addr |-> c.dst.base_addr, dim |-> st.dim]

\* get_for_ref, 2712-3108: the elements stored, each [at |-> index in dst,
\* val |-> the value fetched].
RECURSIVE get_for_ref(_, _, _, _, _, _, _)
get_for_ref(ref, dst, src, dst_index, sr, dst_dim, src_dim) ==
  IF src_dim = Len(ref)
  THEN {[at |-> dst_index, val |-> RemoteValue(sr)]}
  ELSE
    LET m == ref[src_dim + 1]
        sd == src[src_dim + 1]
        dst_stride == IF dst_dim < Len(dst.dim) THEN dst.dim[dst_dim + 1].stride ELSE 0
        extent_src == ref_delta(m, sd)
        stride_src == sd.stride * m.stride
        from_start == (m.start - sd.lower_bound) * sd.stride
        first == CASE m.mode \in {"CAF_ARR_REF_FULL", "CAF_ARR_REF_OPEN_START"} -> 0
                   [] m.mode = "CAF_ARR_REF_VECTOR" -> 0
                   [] OTHER -> from_start
        array_offset_src(idx) ==
          IF m.mode = "CAF_ARR_REF_VECTOR"
          THEN m.vector[idx + 1] - sd.lower_bound * sd.stride
          ELSE first + idx * stride_src
        next_dst_dim ==
          CASE m.mode = "CAF_ARR_REF_SINGLE" -> dst_dim
            [] m.mode = "CAF_ARR_REF_RANGE" ->
                 IF extent_src > 1
                    \/ (IF dst_dim < Len(dst.dim)
                        THEN GFC_DESCRIPTOR_EXTENT(dst.dim, dst_dim) = 1 /\ extent_src = 1
                        ELSE FALSE)
                 THEN dst_dim + 1 ELSE dst_dim
            [] OTHER -> dst_dim + 1
    IN  UNION {get_for_ref(ref, dst, src, dst_index + idx * dst_stride,
                           sr + array_offset_src(idx), next_dst_dim, src_dim + 1) :
                 idx \in 0 .. extent_src - 1}

\* _gfortran_caf_get_by_ref, 3110-3644.
get_by_ref ==
  /\ g_pc = "start"
  /\ g_pc' = "done"
  /\ LET st == ref_pass(g_call)
         dst == ref_alloc(g_call, st)
     IN  IF st.out # "none"
         THEN /\ g_out' = st.out
              /\ g_dst' = [base_addr |-> g_call.dst.base_addr, dim |-> st.dim]
              /\ g_mem' = {}
         ELSE /\ g_out' = "none"
              /\ g_dst' = dst
              /\ g_mem' = get_for_ref(g_call.ref, dst, g_call.src, 0, 0, 0, 0)
  /\ UNCHANGED g_call

RefIdle ==
  /\ g_pc = "idle" /\ g_call = NoRefCall /\ g_dst = NoDst /\ g_mem = {} /\ g_out = "none"

\* A call the compiler makes: dst has the rank of the designated object.
RefInit ==
  /\ g_pc = "start"
  /\ \E src \in RefSources : \E ref \in RefsOf(src) :
        \E dst \in RefDests(RefRank(ref)) : \E ra \in BOOLEAN :
           g_call = [src |-> src, ref |-> ref, dst |-> dst, dst_reallocatable |-> ra]
  /\ g_dst = g_call.dst
  /\ g_mem = {}
  /\ g_out = "none"

RefNext ==
  \/ get_by_ref /\ UNCHANGED notRefVars

\* The subscripts a reference selects in a dimension with bounds sd, in order.
SectionSubscripts(m, sd) ==
  LET Every(from, to) ==
        [k \in 1 .. Cardinality({x \in from .. to : (x - from) % m.stride = 0}) |->
           from + (k - 1) * m.stride]
  IN  CASE m.mode = "CAF_ARR_REF_VECTOR" -> m.vector
        [] m.mode = "CAF_ARR_REF_SINGLE" -> <<m.start>>
        [] m.mode = "CAF_ARR_REF_FULL" -> Every(sd.lower_bound, sd.ubound)
        [] m.mode = "CAF_ARR_REF_RANGE" -> Every(m.start, m.end)
        [] m.mode = "CAF_ARR_REF_OPEN_END" -> Every(m.start, sd.ubound)
        [] m.mode = "CAF_ARR_REF_OPEN_START" -> Every(sd.lower_bound, m.end)

NotSingle(m) == m.mode # "CAF_ARR_REF_SINGLE"

\* The extents of the section a call designates: one per subscript that is not
\* a single index.
SectionExtents(c) ==
  LET kept == SelectSeq([j \in DOMAIN c.ref |-> [c.ref[j] EXCEPT !.end = j]], NotSingle)
  IN  [j \in DOMAIN kept |-> Len(SectionSubscripts(c.ref[kept[j].end], c.src[kept[j].end]))]

\* The number of elements of the section.
RECURSIVE SectionSize(_, _)
SectionSize(c, j) ==
  IF j = 0 THEN 1
  ELSE SectionSize(c, j - 1) * Len(SectionSubscripts(c.ref[j], c.src[j]))

\* Where element n of the section, in array element order, lies in the remote
\* array.
RECURSIVE SectionOffset(_, _, _)
SectionOffset(c, n, j) ==
  IF j = 0 THEN 0
  ELSE LET subs == SectionSubscripts(c.ref[j], c.src[j])
           k == (n \div SectionSize(c, j - 1)) % Len(subs)
       IN  SectionOffset(c, n, j - 1) + (subs[k + 1] - c.src[j].lower_bound) * c.src[j].stride

\* The section, as the destination is to hold it.
SectionData(c) ==
  {[at |-> n, val |-> RemoteValue(SectionOffset(c, n, Len(c.ref)))] :
     n \in 0 .. SectionSize(c, Len(c.ref)) - 1}

DstExtents(dim) == [j \in DOMAIN dim |-> dim[j].ubound + 1 - dim[j].lower_bound]

\* C15: get_by_ref with a reallocatable destination whose base address is null
\* allocates it, sets its extents to those of the referenced section with lower
\* bound 1 and fills it with the remote data of the section; with a destination
\* that is not reallocatable and whose extents differ from the section it ends
\* in an extent error and stores nothing.
C15_GetByRef ==
  (g_pc = "done" /\ SectionSize(g_call, Len(g_call.ref)) > 0) =>
     /\ (g_call.dst.base_addr = "NULL" /\ g_call.dst_reallocatable) =>
           /\ g_out = "none"
           /\ g_dst.base_addr = "new"
           /\ DstExtents(g_dst.dim) = SectionExtents(g_call)
           /\ \A j \in DOMAIN g_dst.dim : g_dst.dim[j].lower_bound = 1
           /\ g_mem = SectionData(g_call)
     /\ (g_call.dst.base_addr = "old" /\ ~g_call.dst_reallocatable
           /\ DstExtents(g_call.dst.dim) # SectionExtents(g_call)) =>
           /\ g_out \in {"nonallocextentmismatch", "extentoutofrange"}
           /\ g_mem = {}

(***************************************************************************)
(* REDUCTION OF AN ARRAY SECTION  (mpi_caf.c 4276-4367, 4539-4560)         *)
(*                                                                         *)
(* internal_co_reduce with the addresses it hands to MPI.  Every image     *)
(* calls the same reduction with a descriptor of the same shape; the k-th  *)
(* collective of one image matches the k-th of every other, so the outcome *)
(* does not depend on how the images interleave and the reduction is one   *)
(* step.  c_mem[p] is the memory of image p from source->base_addr on, in  *)
(* elements.                                                               *)
(***************************************************************************)
CoImages == 4

CoCells == 0 .. 15

\* The descriptors: a scalar, vectors, and sections of a 2 x 2 x 2 array and of
\* the matrices it contains.
CoSources ==
       {<<>>}
  \cup {<<Bounds(1, e, s)>> : e \in {1, 2, 4}, s \in {1, 2, 4}}
  \cup {<<Bounds(1, e[1], s[1]), Bounds(1, e[2], s[2])>> :
          e \in [1 .. 2 -> 1 .. 2], s \in {<<1, 2>>, <<1, 4>>, <<2, 4>>}}
  \cup {<<Bounds(1, e[1], 1), Bounds(1, e[2], 2), Bounds(1, e[3], 4)>> :
          e \in [1 .. 3 -> 1 .. 2]}

\* What the images hold before the reduction: the same numbers on every image,
\* or numbers that tell the images apart.
CoData(data, p, k) == IF data = "same" THEN k + 1 ELSE 100 * p + k

NoCoCall == [op |-> "none"]

\* The loop at 4317-4325 for element i: the offset so far, and extent and
\* stride of the dimension seen last.
RECURSIVE co_reduce_loop(_, _, _)
co_reduce_loop(dim, n, i) ==
  IF n = 0 THEN [array_offset_sr |-> 0, extent |-> 1, stride |-> 1]
  ELSE LET p == co_reduce_loop(dim, n - 1, i)
           e == dim[n].ubound - dim[n].lower_bound + 1
       IN  [array_offset_sr |-> p.array_offset_sr
                                + ((i \div (p.extent * p.stride)) % e) * dim[n].stride,
            extent |-> e, stride |-> dim[n].stride]

\* array_offset_sr of element i, 4314-4326.
array_offset_sr(dim, rank, i) ==
  LET p == co_reduce_loop(dim, rank - 1, i)
  IN  p.array_offset_sr + (i \div p.extent) * dim[rank].stride

\* The value MPI computes from element k of the images 1 .. n.
RECURSIVE MPI_Reduce_at(_, _, _, _)
MPI_Reduce_at(mem, name, k, n) ==
  IF n = 1 THEN mem[1][k] ELSE MPI_Op(name, MPI_Reduce_at(mem, name, k, n - 1), mem[n][k])

\* MPI_Allreduce for result_image 0, else MPI_Reduce with root result_image - 1,
\* in place on the root: 4298-4306 and 4329-4337, on one element.
MPI_Reduce_in_place(mem, name, k, result_image) ==
  [p \in 1 .. CoImages |->
     IF result_image \in {0, p}
     THEN [mem[p] EXCEPT ![k] = MPI_Reduce_at(mem, name, k, CoImages)]
     ELSE mem[p]]

\* The number of elements of the smallest array the section can be taken from;
\* an access behind it may end the image.
size_of_parent(source) ==
  IF Len(source) = 0 THEN 1
  ELSE source[Len(source)].stride
       * (source[Len(source)].ubound - source[Len(source)].lower_bound + 1)

\* Where the k-th element handed to MPI lies: the first size elements when one
\* collective is made, else array_offset_sr.
co_reduce_at(source, k) ==
  IF Len(source) = 0 \/ is_contiguous([dim |-> source]) THEN k
  ELSE array_offset_sr(source, Len(source), k)

\* The memories after the first n elements have been reduced.
RECURSIVE co_reduce_elements(_, _, _)
co_reduce_elements(mem, c, n) ==
  IF n = 0 THEN mem
  ELSE MPI_Reduce_in_place(co_reduce_elements(mem, c, n - 1), c.op,
                           co_reduce_at(c.source, n - 1), c.result_image)

\* internal_co_reduce, 4276-4347, on every image.
co_reduce_collective ==
  /\ c_pc = "start"
  /\ LET size == xfer_size(Len(c_call.source), c_call.source)
     IN  /\ c_mem' = co_reduce_elements(c_mem, c_call, size)
         /\ c_pc' \in (IF \E k \in 0 .. size - 1 : co_reduce_at(c_call.source, k) >= size_of_parent(c_call.source)
                       THEN {"done", "killed"} ELSE {"done"})
         /\ c_fault' = \E k \in 0 .. size - 1 :
                          \A i \in DOMAIN SecOffsets([off |-> 0, dim |-> c_call.source]) :
                             SecOffsets([off |-> 0, dim |-> c_call.source])[i]
                               # co_reduce_at(c_call.source, k)
  /\ UNCHANGED c_call

RedIdle ==
  /\ c_pc = "idle" /\ c_call = NoCoCall /\ c_mem = <<>> /\ c_fault = FALSE

RedInit ==
  /\ c_pc = "start"
  /\ \E op \in Reductions : \E source \in CoSources : \E r \in 0 .. CoImages :
        \E data \in {"same", "distinct"} :
           /\ c_call = [op |-> op, source |-> source, result_image |-> r, data |-> data]
           /\ c_mem = [p \in 1 .. CoImages |-> [k \in CoCells |-> CoData(data, p, k)]]
  /\ c_fault = FALSE

RedNext ==
  \/ co_reduce_collective /\ UNCHANGED notRedVars

\* The sum of element k over the images 1 .. n, as they were before the call.
RECURSIVE CoSum(_, _, _)
CoSum(data, k, n) == IF n = 0 THEN 0 ELSE CoSum(data, k, n - 1) + CoData(data, n, k)

\* C16: after co_sum with result_image 0 every image holds the element-wise sum
\* over all images in every element of the array; with result_image r > 0 image
\* r holds the sums and every other image holds what it held before.
C16_ResultPlacement ==
  (c_pc = "done" /\ c_call.op = "co_sum") =>
     LET offs == SecOffsets([off |-> 0, dim |-> c_call.source]) IN
     \A p \in 1 .. CoImages : \A i \in DOMAIN offs :
        c_mem[p][offs[i]] = IF c_call.result_image \in {0, p}
                            THEN CoSum(c_call.data, offs[i], CoImages)
                            ELSE CoData(c_call.data, p, offs[i])

(***************************************************************************)
(* OPERATIONS IN A BUILD WITH FAILED IMAGES  (WITH_FAILED_IMAGES defined)  *)
(*                                                                         *)
(* What each operation does about a failed image.  image_stati is the      *)
(* caller's record of the other images (221), written by image_status      *)
(* (4990-5010).  The communicators carry the handler that turns a process  *)
(* failure into STAT_FAILED_IMAGE (592, 804-808); the windows carry none,  *)
(* so a one-sided call on a failed image either ends the job or returns an *)
(* error, as the MPI library decides (rma).  A read of image_stati outside *)
(* its bounds yields either status.                                        *)
(***************************************************************************)
FailImages == 3

FImages == 1 .. FailImages

FailOps == {"sync_all", "sync_images", "send", "get", "sendget", "get_by_ref", "lock",
            "event_post", "event_wait"}

NoFailCall == [op |-> "none"]

\* What image_stati can hold at a 0-based index.
image_stati_at(c, k) ==
  IF k \in 0 .. FailImages - 1 THEN {c.image_stati[k + 1]} ELSE {0, STAT_FAILED_IMAGE}

\* check_image_health, 401-408: the test.
image_failed(c, image_index) == c.image_stati[image_index] = STAT_FAILED_IMAGE

\* check_image_health, 403-408, when the test is true: terminate_internal
\* without stat, else *stat = STAT_FAILED_IMAGE and return.
report_failed(c) ==
  /\ f_pc' = IF c.hasStat THEN "returned" ELSE "terminated"
  /\ f_stat' = IF c.hasStat THEN STAT_FAILED_IMAGE ELSE f_stat

\* if (stat) *stat = ierr; else if (ierr == STAT_FAILED_IMAGE) terminate_internal:
\* 1460-1466, 4063-4070, 654-656.
report_ierr(c, ierr) ==
  /\ f_pc' = IF ~c.hasStat /\ ierr = STAT_FAILED_IMAGE THEN "terminated" ELSE "returned"
  /\ f_stat' = IF c.hasStat THEN ierr ELSE f_stat

\* sync_all, 1432-1466: MPI_Barrier on alive_comm answers c.mpi.
fail_sync_all ==
  /\ f_pc = "start" /\ f_call.op = "sync_all"
  /\ report_ierr(f_call, f_call.mpi)
  /\ f_detected' = (f_call.mpi = STAT_FAILED_IMAGE)

\* sync_images_internal, 3928-4070, for a set of other images without
\* duplicates: MPI_Waitany answers c.mpi.
fail_sync_images ==
  /\ f_pc = "start" /\ f_call.op = "sync_images"
  /\ report_ierr(f_call, f_call.mpi)
  /\ f_detected' = (f_call.mpi = STAT_FAILED_IMAGE)

\* send 1702-1714 and get 2038-2050: nothing to transfer returns at once, else
\* check_image_health before the transfer.
fail_transfer(op) ==
  /\ f_pc = "start" /\ f_call.op = op
  /\ IF f_call.size = 0
     THEN f_pc' = "returned" /\ f_stat' = f_stat /\ f_detected' = FALSE
     ELSE IF image_failed(f_call, f_call.image_index)
     THEN report_failed(f_call) /\ f_detected' = TRUE
     ELSE f_pc' = "returned" /\ f_stat' = f_stat /\ f_detected' = FALSE

\* sendget, 1556-1569: both images are checked.
fail_sendget ==
  /\ f_pc = "start" /\ f_call.op = "sendget"
  /\ IF f_call.size = 0
     THEN f_pc' = "returned" /\ f_stat' = f_stat /\ f_detected' = FALSE
     ELSE IF image_failed(f_call, f_call.image_index)
             \/ image_failed(f_call, f_call.image_index_g)
     THEN report_failed(f_call) /\ f_detected' = TRUE
     ELSE f_pc' = "returned" /\ f_stat' = f_stat /\ f_detected' = FALSE

\* _gfortran_caf_get_by_ref, 3162-3165: *stat = 0, then check_image_health.
fail_get_by_ref ==
  /\ f_pc = "start" /\ f_call.op = "get_by_ref"
  /\ IF image_failed(f_call, f_call.image_index)
     THEN report_failed(f_call) /\ f_detected' = TRUE
     ELSE /\ f_pc' = "returned"
          /\ f_stat' = IF f_call.hasStat THEN 0 ELSE f_stat
          /\ f_detected' = FALSE

\* lock and mutex_lock, 4566-4579 and 596-675, with acquired_lock absent.
\* The compare-and-swap on a failed image leaves value as it was, 0.  value is
\* the image that holds the lock; the loop looks at image_stati[value] (640),
\* takes the lock over when that is STAT_FAILED_IMAGE and leaves with ierr
\* still 0.
fail_lock ==
  /\ f_pc = "start" /\ f_call.op = "lock"
  /\ IF f_call.image_stati[f_call.image_index] = STAT_FAILED_IMAGE
     THEN /\ f_detected' = TRUE
          /\ IF f_call.rma = "ends the job"
             THEN f_pc' = "terminated" /\ f_stat' = IF f_call.hasStat THEN 0 ELSE f_stat
             ELSE report_ierr(f_call, 0)
     ELSE IF f_call.value = f_call.this_image /\ f_call.image_index = f_call.this_image
     THEN /\ f_detected' = FALSE
          /\ f_pc' = IF f_call.hasStat THEN "returned" ELSE "terminated"
          /\ f_stat' = IF f_call.hasStat THEN STAT_ALREADY_LOCKED ELSE f_stat
     ELSE IF f_call.value = 0
     THEN f_detected' = FALSE /\ report_ierr(f_call, 0)
     ELSE \E s \in image_stati_at(f_call, f_call.value) :
             IF s = STAT_FAILED_IMAGE
             THEN f_detected' = TRUE /\ report_ierr(f_call, 0)
             ELSE /\ f_detected' = FALSE
                  /\ f_pc' = "spinning"
                  /\ f_stat' = IF f_call.hasStat THEN 0 ELSE f_stat

\* event_post, 4767-4808: the accumulate, then check_image_health on
\* image_index, which is 0 for the image itself.
fail_event_post ==
  /\ f_pc = "start" /\ f_call.op = "event_post"
  /\ LET target == IF f_call.image_index = 0 THEN f_call.this_image ELSE f_call.image_index
         target_failed == f_call.image_stati[target] = STAT_FAILED_IMAGE
     IN  IF target_failed /\ f_call.rma = "ends the job"
         THEN /\ f_pc' = "terminated"
              /\ f_stat' = IF f_call.hasStat THEN 0 ELSE f_stat
              /\ f_detected' = TRUE
         ELSE \E s \in image_stati_at(f_call, f_call.image_index - 1) :
                 IF s = STAT_FAILED_IMAGE
                 THEN report_failed(f_call) /\ f_detected' = TRUE
                 ELSE f_detected' = FALSE /\ report_ierr(f_call, 0)

\* event_wait, 4810-4862: the event is the caller's own; check_image_health is
\* given the rank caf_this_image - 1 where it expects an image index.
fail_event_wait ==
  /\ f_pc = "start" /\ f_call.op = "event_wait"
  /\ \E s \in image_stati_at(f_call, f_call.this_image - 2) :
        IF s = STAT_FAILED_IMAGE
        THEN report_failed(f_call) /\ f_detected' = TRUE
        ELSE f_detected' = FALSE /\ report_ierr(f_call, 0)

FailIdle ==
  /\ f_pc = "idle" /\ f_call = NoFailCall /\ f_stat = NoValue /\ f_detected = FALSE

\* The calling image is alive and says so in its own record (815).
FailInit ==
  /\ f_pc = "start"
  /\ \E op \in FailOps : \E me \in FImages : \E hasStat \in BOOLEAN :
        \E stati \in [FImages -> {0, STAT_FAILED_IMAGE}] :
        \E image_index \in FImages : \E g \in FImages : \E value \in 0 .. FailImages :
        \E size \in 0 .. 1 : \E mpi \in {0, STAT_FAILED_IMAGE} :
        \E rma \in {"ends the job", "returns an error"} :
           /\ stati[me] = 0
           /\ f_call = [op |-> op, this_image |-> me, hasStat |-> hasStat,
                        image_stati |-> stati,
                        image_index |-> IF op = "event_post" /\ image_index = me
                                        THEN 0 ELSE image_index,
                        image_index_g |-> g, value |-> value, size |-> size,
                        mpi |-> mpi, rma |-> rma]
  /\ f_stat = NoValue
  /\ f_detected = FALSE

FailNext ==
  \/ fail_sync_all /\ UNCHANGED <<f_call, notFailVars>>
  \/ fail_sync_images /\ UNCHANGED <<f_call, notFailVars>>
  \/ fail_transfer("send") /\ UNCHANGED <<f_call, notFailVars>>
  \/ fail_transfer("get") /\ UNCHANGED <<f_call, notFailVars>>
  \/ fail_sendget /\ UNCHANGED <<f_call, notFailVars>>
  \/ fail_get_by_ref /\ UNCHANGED <<f_call, notFailVars>>
  \/ fail_lock /\ UNCHANGED <<f_call, notFailVars>>
  \/ fail_event_post /\ UNCHANGED <<f_call, notFailVars>>
  \/ fail_event_wait /\ UNCHANGED <<f_call, notFailVars>>

\* C17: in a build that handles failed images an operation that names a failed
\* image or finds one does not return normally unless it has written
\* STAT_FAILED_IMAGE to the caller's stat; without stat it terminates the image.
C17_NeverSilent ==
  (f_pc = "returned" /\ f_detected) => f_stat = STAT_FAILED_IMAGE

(***************************************************************************)
(*                 INIT, FINALIZE AND THE MPI LIBRARY                      *)
(*                                                                         *)
(* Every image is a process with an MPI library of its own.  The program   *)
(* may have called MPI_Init itself before the runtime's init, and then     *)
(* calls MPI_Finalize itself after the runtime's finalize.  Build without  *)
(* WITH_FAILED_IMAGES.                                                     *)
(***************************************************************************)
OwnImages == 2
MaxInitCalls == 2
OImages == 1 .. OwnImages

\* A plausible slip: taking MPI for not initialized whatever its state.
MPI_Initialized_never(state) == FALSE

\* MPI_Initialized: is_init.
MPI_Initialized(state) == state # "uninit"

\* MPI_Init called by the program before the runtime's init.
embedder_MPI_Init(i) ==
  /\ mpi_state[i] = "uninit"
  /\ o_num_images[i] = 0
  /\ mpi_state' = [mpi_state EXCEPT ![i] = "init"]
  /\ mpi_by_embedder' = [mpi_by_embedder EXCEPT ![i] = TRUE]
  /\ UNCHANGED <<mpi_inits, mpi_finalizes, caf_owns_mpi, o_num_images,
                 o_is_finalized, o_pc, o_init_calls>>

\* MPI_Finalize called by the program after the runtime's finalize.
embedder_MPI_Finalize(i) ==
  /\ mpi_by_embedder[i]
  /\ mpi_state[i] = "init"
  /\ o_is_finalized[i]
  /\ mpi_state' = [mpi_state EXCEPT ![i] = "finalized"]
  /\ UNCHANGED <<mpi_by_embedder, mpi_inits, mpi_finalizes, caf_owns_mpi,
                 o_num_images, o_is_finalized, o_pc, o_init_calls>>

\* PREFIX (init).
init(i) ==
  /\ o_pc[i] = "idle"
  /\ o_init_calls[i] < MaxInitCalls
  /\ o_init_calls' = [o_init_calls EXCEPT ![i] = @ + 1]
  /\ IF o_num_images[i] = 0
     THEN LET is_init == MPI_Initialized(mpi_state[i]) IN
          /\ IF is_init
             THEN /\ caf_owns_mpi' = [caf_owns_mpi EXCEPT ![i] = FALSE]
                  /\ UNCHANGED <<mpi_state, mpi_inits>>
             ELSE /\ mpi_state' = [mpi_state EXCEPT ![i] = "init"]
                  /\ mpi_inits' = [mpi_inits EXCEPT ![i] = @ + 1]
                  /\ caf_owns_mpi' = [caf_owns_mpi EXCEPT ![i] = TRUE]
          /\ o_num_images' = [o_num_images EXCEPT ![i] = OwnImages]
          /\ o_is_finalized' = [o_is_finalized EXCEPT ![i] = FALSE]
     ELSE UNCHANGED <<mpi_state, mpi_inits, caf_owns_mpi, o_num_images, o_is_finalized>>
  /\ UNCHANGED <<mpi_by_embedder, mpi_finalizes, o_pc>>

\* PREFIX (finalize): finalize_internal (0) up to its MPI_Barrier.
finalize(i) ==
  /\ o_pc[i] = "idle"
  /\ o_num_images[i] # 0
  /\ ~o_is_finalized[i]
  /\ o_pc' = [o_pc EXCEPT ![i] = "barrier"]
  /\ UNCHANGED <<mpi_state, mpi_by_embedder, mpi_inits, mpi_finalizes, caf_owns_mpi,
                 o_num_images, o_is_finalized, o_init_calls>>

\* finalize_internal (0) from the return of the barrier, which every image has
\* entered, to its end.
finalize_teardown(i) ==
  /\ o_pc[i] = "barrier"
  /\ \A j \in OImages : o_pc[j] = "barrier" \/ o_is_finalized[j]
  /\ IF caf_owns_mpi[i]
     THEN /\ mpi_state' = [mpi_state EXCEPT ![i] = "finalized"]
          /\ mpi_finalizes' = [mpi_finalizes EXCEPT ![i] = @ + 1]
     ELSE UNCHANGED <<mpi_state, mpi_finalizes>>
  /\ o_is_finalized' = [o_is_finalized EXCEPT ![i] = TRUE]
  /\ o_pc' = [o_pc EXCEPT ![i] = "idle"]
  /\ UNCHANGED <<mpi_by_embedder, mpi_inits, caf_owns_mpi, o_num_images, o_init_calls>>

OwnIdle ==
  /\ mpi_state = [i \in OImages |-> "uninit"]
  /\ mpi_by_embedder = [i \in OImages |-> FALSE]
  /\ mpi_inits = [i \in OImages |-> 0]
  /\ mpi_finalizes = [i \in OImages |-> 0]
  /\ caf_owns_mpi = [i \in OImages |-> FALSE]
  /\ o_num_images = [i \in OImages |-> 0]
  /\ o_is_finalized = [i \in OImages |-> FALSE]
  /\ o_pc = [i \in OImages |-> "idle"]
  /\ o_init_calls = [i \in OImages |-> 0]

\* The static initializers: caf_num_images = 0, caf_is_finalized = 0,
\* caf_owns_mpi = false.
OwnInit == OwnIdle

OwnNext ==
  \/ \E i \in OImages : embedder_MPI_Init(i) /\ UNCHANGED notOwnVars
  \/ \E i \in OImages : init(i) /\ UNCHANGED notOwnVars
  \/ \E i \in OImages : finalize(i) /\ UNCHANGED notOwnVars
  \/ \E i \in OImages : finalize_teardown(i) /\ UNCHANGED notOwnVars
  \/ \E i \in OImages : embedder_MPI_Finalize(i) /\ UNCHANGED notOwnVars

\* What holds in every state: the runtime owns MPI exactly if it has called
\* MPI_Init; it never calls MPI_Finalize on an MPI the program initialized, and
\* calls it once, by the end of finalize, on an MPI it initialized itself.
OwnershipInv ==
  \A i \in OImages :
    /\ caf_owns_mpi[i] <=> mpi_inits[i] = 1
    /\ mpi_inits[i] <= 1 /\ mpi_finalizes[i] <= 1
    /\ mpi_by_embedder[i] => (mpi_inits[i] = 0 /\ mpi_finalizes[i] = 0)
    /\ mpi_finalizes[i] = 1 <=> (caf_owns_mpi[i] /\ o_is_finalized[i])

\* What holds of every step of init and finalize on image i.
OwnershipStep(i) ==
  /\ (init(i) /\ o_num_images[i] = 0) =>
       /\ mpi_inits'[i] = mpi_inits[i] + 1 <=> mpi_state[i] = "uninit"
       /\ mpi_inits'[i] = mpi_inits[i] <=> mpi_state[i] # "uninit"
       /\ caf_owns_mpi'[i] <=> mpi_state[i] = "uninit"
       /\ mpi_state'[i] = "init"
  /\ (init(i) /\ o_num_images[i] # 0) =>
       UNCHANGED <<mpi_state, mpi_by_embedder, mpi_inits, mpi_finalizes, caf_owns_mpi,
                   o_num_images, o_is_finalized, o_pc>>
  /\ finalize_teardown(i) =>
       /\ mpi_finalizes'[i] = mpi_finalizes[i] + 1 <=> caf_owns_mpi[i]
       /\ mpi_finalizes'[i] = mpi_finalizes[i] <=> ~caf_owns_mpi[i]
       /\ mpi_state'[i] = IF caf_owns_mpi[i] THEN "finalized" ELSE mpi_state[i]

\* C20: transport ownership.  The first init on an image calls MPI_Init exactly
\* if MPI was not initialized, and caf_owns_mpi records whether it did; finalize
\* calls MPI_Finalize exactly if caf_owns_mpi; so the runtime never finalizes an
\* MPI the program initialized and finalizes once an MPI it initialized; an
\* init call on an image already initialized changes nothing.
C20_TransportOwnership ==
  /\ []OwnershipInv
  /\ [][\A i \in OImages : OwnershipStep(i)]_vars

\* C20 witness: image 1 initialized MPI itself, image 2 left that to the
\* runtime; both have called init twice and finalize, and only the MPI of
\* image 2 has been finalized, by the runtime.
C20_Witness ==
  /\ mpi_by_embedder[1] /\ ~mpi_by_embedder[2]
  /\ o_init_calls[1] = 2 /\ o_init_calls[2] = 2
  /\ o_is_finalized[1] /\ o_is_finalized[2]
  /\ ~caf_owns_mpi[1] /\ caf_owns_mpi[2]
  /\ mpi_state[1] = "init" /\ mpi_finalizes[1] = 0
  /\ mpi_state[2] = "finalized" /\ mpi_finalizes[2] = 1

(***************************************************************************)
(*                        STOP AND ERROR STOP                              *)
(*                                                                         *)
(* Each of the four functions calls terminate_internal, which runs         *)
(* finalize_internal with status code STAT_STOPPED_IMAGE (the status word  *)
(* is set and sent to every other image, then finalize_internal returns)   *)
(* and ends the process with the exit code it was given.                   *)
(***************************************************************************)
StopImages == 2
MaxStopCode == 1
QImages == 1 .. StopImages

\* The int32_t arguments of stop_numeric and error_stop.
StopCodes == (0 - 1) .. MaxStopCode \cup {256}

StopFunctions == {"stop_numeric", "stop_str", "error_stop_str", "error_stop"}

\* The arguments of a function that matter: the code of the numeric ones.
StopArgs(op) == IF op \in {"stop_numeric", "error_stop"} THEN StopCodes ELSE {0}

NoStopCall == [op |-> "none", arg |-> 0]

\* The exit status the parent of a process sees: the low 8 bits of the code.
ExitStatus(code) == code % 256

\* The exit_code argument each function hands to terminate_internal.
exit_code(call) ==
  CASE call.op = "stop_numeric" -> call.arg
    [] call.op = "stop_str" -> 0
    [] call.op = "error_stop_str" -> 1
    [] call.op = "error_stop" -> call.arg

\* finalize_internal: the status word for a status code.
status_word(status_code) ==
  IF status_code = 0 THEN STAT_STOPPED_IMAGE ELSE status_code

\* A plausible slip: a loop that leaves out the last of the other images.
announce_more_short(idx, num_images) == idx < num_images - 2

\* finalize_internal: `for (int i = 0; i < caf_num_images - 1; ++i)`.
announce_more(idx, num_images) == idx < num_images - 1

\* images_full of image i: every image but i, ascending.
stop_images_full(this_image) ==
  [k \in 1 .. StopImages - 1 |-> IF k < this_image THEN k ELSE k + 1]

\* One of the four functions, up to the announcing loop of finalize_internal.
stop_call(i, op, arg) ==
  /\ q_pc[i] = "run"
  /\ q_call' = [q_call EXCEPT ![i] = [op |-> op, arg |-> arg]]
  /\ q_img_status' = [q_img_status EXCEPT ![i] = status_word(STAT_STOPPED_IMAGE)]
  /\ q_idx' = [q_idx EXCEPT ![i] = 0]
  /\ q_pc' = [q_pc EXCEPT ![i] = "announce"]
  /\ UNCHANGED <<q_got, q_exit, q_build>>

\* finalize_internal: one turn of the announcing loop, or its end and the
\* return to terminate_internal.
stop_announce(i) ==
  /\ q_pc[i] = "announce"
  /\ IF announce_more(q_idx[i], StopImages)
     THEN LET dst == stop_images_full(i)[q_idx[i] + 1] IN
          /\ q_got' = [q_got EXCEPT ![i][dst] = Append(@, q_img_status[i])]
          /\ q_idx' = [q_idx EXCEPT ![i] = @ + 1]
          /\ UNCHANGED q_pc
     ELSE /\ q_pc' = [q_pc EXCEPT ![i] = "abort"]
          /\ UNCHANGED <<q_got, q_idx>>
  /\ UNCHANGED <<q_call, q_img_status, q_exit, q_build>>

\* terminate_internal after finalize_internal: MPI_Abort (not in a build
\* WITH_FAILED_IMAGES), which ends every process of the job, and exit.
stop_terminate(i) ==
  /\ q_pc[i] = "abort"
  /\ q_exit' = [q_exit EXCEPT ![i] = exit_code(q_call[i])]
  /\ q_pc' = [j \in QImages |->
                IF j = i THEN "exited"
                ELSE IF q_build = "plain" /\ q_pc[j] # "exited" THEN "killed"
                ELSE q_pc[j]]
  /\ UNCHANGED <<q_call, q_img_status, q_idx, q_got, q_build>>

StopIdle ==
  /\ q_pc = [i \in QImages |-> "run"]
  /\ q_call = [i \in QImages |-> NoStopCall]
  /\ q_img_status = [i \in QImages |-> 0]
  /\ q_idx = [i \in QImages |-> 0]
  /\ q_got = [i \in QImages |-> [j \in QImages |-> <<>>]]
  /\ q_exit = [i \in QImages |-> NoValue]
  /\ q_build = "plain"

StopInit ==
  /\ q_pc = [i \in QImages |-> "run"]
  /\ q_call = [i \in QImages |-> NoStopCall]
  /\ q_img_status = [i \in QImages |-> 0]
  /\ q_idx = [i \in QImages |-> 0]
  /\ q_got = [i \in QImages |-> [j \in QImages |-> <<>>]]
  /\ q_exit = [i \in QImages |-> NoValue]
  /\ q_build \in {"plain", "WITH_FAILED_IMAGES"}

StopNext ==
  \/ \E i \in QImages, op \in StopFunctions :
       \E arg \in StopArgs(op) : stop_call(i, op, arg) /\ UNCHANGED notStopVars
  \/ \E i \in QImages : stop_announce(i) /\ UNCHANGED notStopVars
  \/ \E i \in QImages : stop_terminate(i) /\ UNCHANGED notStopVars

\* Image i has ended, with status word STAT_STOPPED_IMAGE sent once to every
\* other image.
StoppedAndAnnounced(i) ==
  /\ q_img_status[i] = STAT_STOPPED_IMAGE
  /\ \A j \in QImages \ {i} : q_got[i][j] = <<STAT_STOPPED_IMAGE>>

\* C21 as stated: stop_numeric and stop_str end the image with exit code 0,
\* error_stop and error_stop_str with a nonzero exit code, whatever the
\* argument, and the status word is STAT_STOPPED_IMAGE and sent to the others
\* before the process ends.
C21_StopExitCodes ==
  \A i \in QImages :
    q_pc[i] = "exited" =>
      /\ q_call[i].op \in {"stop_numeric", "stop_str"} => ExitStatus(q_exit[i]) = 0
      /\ q_call[i].op \in {"error_stop", "error_stop_str"} => ExitStatus(q_exit[i]) # 0
      /\ StoppedAndAnnounced(i)

\* C21 amended: stop_str ends the image with exit code 0 and error_stop_str
\* with 1; stop_numeric and error_stop end it with their argument as exit code,
\* zero or not; in all four cases the status word is STAT_STOPPED_IMAGE and has
\* been sent to every other image before the process ends.
C21_StopExitCodesAmended ==
  \A i \in QImages :
    q_pc[i] = "exited" =>
      /\ q_call[i].op = "stop_str" => q_exit[i] = 0
      /\ q_call[i].op = "error_stop_str" => q_exit[i] = 1
      /\ q_call[i].op \in {"stop_numeric", "error_stop"} => q_exit[i] = q_call[i].arg
      /\ StoppedAndAnnounced(i)

\* C21 witness: image 2 has ended by stop_numeric (1) with exit code 1, its
\* status word sent to image 1, which the MPI_Abort has taken down.
C21_Witness ==
  /\ q_pc[2] = "exited" /\ q_pc[1] = "killed"
  /\ q_call[2] = [op |-> "stop_numeric", arg |-> 1]
  /\ q_exit[2] = 1
  /\ q_got[2][1] = <<STAT_STOPPED_IMAGE>>

(***************************************************************************)
(*                 THE TOKEN LISTS OF ONE IMAGE                            *)
(*                                                                         *)
(* caf_allocated_tokens and caf_allocated_slave_tokens as register,        *)
(* deregister and finalize_internal keep them on one image; the collective *)
(* calls inside are left to the section on registration.  Build with       *)
(* GCC_GE_7.  Token t is the t-th token registered.                        *)
(***************************************************************************)
MaxTokens == 3
Tokens == 1 .. MaxTokens

TokRegTypes == {"CAF_REGTYPE_COARRAY_ALLOC", "CAF_REGTYPE_COARRAY_ALLOC_REGISTER_ONLY"}

NoRec == [kind |-> "none", state |-> "none", memptr |-> 0]

\* The list a register type puts its token on.
list_of(type) ==
  IF type = "CAF_REGTYPE_COARRAY_ALLOC_REGISTER_ONLY" THEN "slave" ELSE "master"

\* register, creating a token: the record is allocated (a master token with
\* its window memory, a slave token without memory) and put at the head of
\* its list.
tok_register(type) ==
  LET t == tk_count + 1
      kind == list_of(type) IN
  /\ ~tk_finalized
  /\ tk_count < MaxTokens
  /\ tk_count' = t
  /\ tk_rec' = [tk_rec EXCEPT ![t] = [kind |-> kind, state |-> "allocated",
                                      memptr |-> IF kind = "master" THEN 1 ELSE 0]]
  /\ tk_list' = [tk_list EXCEPT ![kind] = <<t>> \o @]
  /\ tk_view' = [tk_view EXCEPT ![t] = IF kind = "master" THEN "allocated"
                                        ELSE "unallocated"]
  /\ tk_live' = tk_live \cup {t}
  /\ UNCHANGED <<tk_released, tk_dealloc_used, tk_finalized, tk_fault>>

\* register with CAF_REGTYPE_COARRAY_ALLOC_ALLOCATE_ONLY on a slave token the
\* programme holds without memory: slave_token->memptr = mem.  The write goes
\* to the record whether or not it has been freed.
tok_allocate_only(t) ==
  /\ ~tk_finalized
  /\ tk_view[t] = "unallocated"
  /\ tk_rec[t].kind = "slave"
  /\ IF tk_rec[t].state = "allocated"
     THEN tk_rec' = [tk_rec EXCEPT ![t].memptr = 1] /\ UNCHANGED tk_fault
     ELSE tk_fault' = TRUE /\ UNCHANGED tk_rec
  /\ tk_view' = [tk_view EXCEPT ![t] = "allocated"]
  /\ UNCHANGED <<tk_list, tk_count, tk_live, tk_released, tk_dealloc_used, tk_finalized>>

\* deregister: the token is unlinked from `which` list and its record freed.
tok_release(t, which) ==
  /\ tk_list' = [tk_list EXCEPT ![which] = token_unlink(@, token_find(@, t))]
  /\ tk_rec' = [tk_rec EXCEPT ![t] = [@ EXCEPT !.state = "freed", !.memptr = 0]]
  /\ tk_released' = [tk_released EXCEPT ![t] = @ + 1]

\* deregister of a token the programme holds.
tok_deregister(t, type) ==
  LET dealloc_only == type = "CAF_DEREGTYPE_COARRAY_DEALLOCATE_ONLY" IN
  /\ ~tk_finalized
  /\ tk_view[t] \in {"unallocated", "allocated"}
  /\ tk_view' = [tk_view EXCEPT ![t] = IF dealloc_only THEN "unallocated" ELSE "gone"]
  /\ tk_live' = IF dealloc_only THEN tk_live ELSE tk_live \ {t}
  /\ tk_dealloc_used' = (tk_dealloc_used \/ dealloc_only)
  /\ IF token_find(tk_list.master, t) # 0
     THEN tok_release(t, "master")
     ELSE IF token_find(tk_list.slave, t) # 0
     THEN IF tk_rec[t].memptr # 0 /\ dealloc_only
          THEN /\ tk_rec' = [tk_rec EXCEPT ![t].memptr = 0]
               /\ UNCHANGED <<tk_list, tk_released>>
          ELSE tok_release(t, "slave")
     ELSE UNCHANGED <<tk_list, tk_rec, tk_released>>
  /\ UNCHANGED <<tk_count, tk_finalized, tk_fault>>

\* finalize_internal: every token on the slave list, then every token on the
\* master list, is freed.
tok_finalize ==
  LET listed == {tk_list.slave[p] : p \in 1 .. Len(tk_list.slave)}
                  \cup {tk_list.master[p] : p \in 1 .. Len(tk_list.master)} IN
  /\ ~tk_finalized
  /\ tk_finalized' = TRUE
  /\ tk_list' = [master |-> <<>>, slave |-> <<>>]
  /\ tk_rec' = [t \in Tokens |-> IF t \in listed
                                 THEN [tk_rec[t] EXCEPT !.state = "freed", !.memptr = 0]
                                 ELSE tk_rec[t]]
  /\ tk_released' = [t \in Tokens |-> IF t \in listed THEN tk_released[t] + 1
                                      ELSE tk_released[t]]
  /\ tk_view' = [t \in Tokens |-> IF tk_view[t] = "none" THEN "none" ELSE "gone"]
  /\ tk_live' = {}
  /\ UNCHANGED <<tk_count, tk_dealloc_used, tk_fault>>

TokIdle ==
  /\ tk_list = [master |-> <<>>, slave |-> <<>>]
  /\ tk_rec = [t \in Tokens |-> NoRec]
  /\ tk_count = 0
  /\ tk_view = [t \in Tokens |-> "none"]
  /\ tk_live = {}
  /\ tk_released = [t \in Tokens |-> 0]
  /\ tk_dealloc_used = FALSE
  /\ tk_finalized = FALSE
  /\ tk_fault = FALSE

TokInit == TokIdle

TokNext ==
  \/ \E type \in TokRegTypes : tok_register(type) /\ UNCHANGED notTokVars
  \/ \E t \in Tokens : tok_allocate_only(t) /\ UNCHANGED notTokVars
  \/ \E t \in Tokens, type \in DeregTypes :
       tok_deregister(t, type) /\ UNCHANGED notTokVars
  \/ tok_finalize /\ UNCHANGED notTokVars

\* The tokens on a list, and whether each is there once.
Listed(which) == {tk_list[which][p] : p \in 1 .. Len(tk_list[which])}

ListedOnce(which) ==
  \A p \in 1 .. Len(tk_list[which]), q \in 1 .. Len(tk_list[which]) :
    tk_list[which][p] = tk_list[which][q] => p = q

\* C22: registry list invariant.  As long as only register and full
\* deregister calls have been made, each list holds exactly the tokens of its
\* kind that were registered and not yet deregistered, each once; and after
\* finalize every token that was registered has been released exactly once.
C22_ListInvariant ==
  ~tk_dealloc_used =>
    /\ ~tk_finalized =>
         \A which \in {"master", "slave"} :
           /\ Listed(which) = {t \in tk_live : tk_rec[t].kind = which}
           /\ ListedOnce(which)
    /\ tk_finalized => \A t \in 1 .. tk_count : tk_released[t] = 1

\* C25: deallocate-only deregistration keeps the token.  A deregister in
\* deallocate-only mode of a token that is on its list, with or without
\* memory, leaves the token with memptr NULL, its record allocated, and both
\* lists as they were.
C25_DeallocateOnlyKeepsToken ==
  [][\A t \in Tokens :
       (/\ tk_rec[t].state = "allocated"
        /\ t \in Listed(tk_rec[t].kind)
        /\ tok_deregister(t, "CAF_DEREGTYPE_COARRAY_DEALLOCATE_ONLY")) =>
          /\ tk_rec'[t].memptr = 0
          /\ tk_rec'[t].state = "allocated"
          /\ tk_list' = tk_list
          /\ tk_released' = tk_released]_vars

(***************************************************************************)
(*                 THE ORDER OF finalize_internal (0)                      *)
(*                                                                         *)
(* Every image runs the programme and then calls finalize.  MPI_Win_free   *)
(* and MPI_Comm_free are taken as local steps: the synchronisation that    *)
(* they bring in addition to the barrier only removes interleavings.       *)
(***************************************************************************)
FinImages == 2
MaxFinTokens == 1
DImages == 1 .. FinImages

\* MPI_Barrier: nobody leaves before everybody has entered.
barrier_open_always(entered, images) == TRUE
barrier_open(entered, images) == entered = images

FinStep(i, event, pc) ==
  /\ td_log' = [td_log EXCEPT ![i] = Append(@, event)]
  /\ td_pc' = [td_pc EXCEPT ![i] = pc]

\* PREFIX(finalize) -> finalize_internal (0): CAF_Win_lock (MPI_LOCK_EXCLUSIVE,
\* caf_this_image - 1, *stat_tok), which is MPI_Win_lock with
\* CAF_MPI_LOCK_UNLOCK and nothing otherwise.
fin_lock(i) ==
  /\ td_pc[i] = "running"
  /\ IF td_lock_build = "CAF_MPI_LOCK_UNLOCK"
     THEN /\ td_stat_lock[i] = 0
          /\ td_stat_lock' = [td_stat_lock EXCEPT ![i] = i]
          /\ FinStep(i, "lock", "set")
     ELSE /\ td_pc' = [td_pc EXCEPT ![i] = "set"]
          /\ UNCHANGED <<td_stat_lock, td_log>>
  /\ UNCHANGED <<td_img_status, td_idx, td_got, td_arrived, td_slave, td_master, td_owns_mpi, td_is_finalized, td_build, td_lock_build>>

\* img_status = STAT_STOPPED_IMAGE (status_code is 0).
fin_set_status(i) ==
  /\ td_pc[i] = "set"
  /\ td_img_status' = [td_img_status EXCEPT ![i] = STAT_STOPPED_IMAGE]
  /\ FinStep(i, "status", "unlock")
  /\ UNCHANGED <<td_stat_lock, td_idx, td_got, td_arrived, td_slave, td_master, td_owns_mpi, td_is_finalized, td_build, td_lock_build>>

\* CAF_Win_unlock (caf_this_image - 1, *stat_tok): MPI_Win_unlock with
\* CAF_MPI_LOCK_UNLOCK, MPI_Win_flush otherwise.
fin_unlock(i) ==
  /\ td_pc[i] = "unlock"
  /\ td_stat_lock' = [td_stat_lock EXCEPT ![i] = 0]
  /\ FinStep(i, IF td_lock_build = "CAF_MPI_LOCK_UNLOCK" THEN "unlock" ELSE "flush", "send")
  /\ UNCHANGED <<td_img_status, td_idx, td_got, td_arrived, td_slave, td_master, td_owns_mpi, td_is_finalized, td_build, td_lock_build>>

\* images_full of image i: the other images, in ascending order.
fin_images_full(i) ==
  [k \in 1 .. FinImages - 1 |-> IF k < i THEN k ELSE k + 1]

\* for (i = 0; i < caf_num_images - 1; ++i) MPI_Send (&img_status, ...,
\* images_full[i] - 1, ...): one turn of the loop, or its end and the entry
\* into MPI_Barrier.
fin_send(i) ==
  /\ td_pc[i] = "send"
  /\ IF td_idx[i] < FinImages - 1
     THEN /\ td_got' = [td_got EXCEPT ![fin_images_full(i)[td_idx[i] + 1]] = @ \cup {i}]
          /\ td_idx' = [td_idx EXCEPT ![i] = @ + 1]
          /\ FinStep(i, "send", "send")
          /\ UNCHANGED td_arrived
     ELSE /\ td_arrived' = td_arrived \cup {i}
          /\ td_pc' = [td_pc EXCEPT ![i] = "barrier"]
          /\ UNCHANGED <<td_got, td_idx, td_log>>
  /\ UNCHANGED <<td_img_status, td_stat_lock, td_slave, td_master, td_owns_mpi, td_is_finalized, td_build, td_lock_build>>

\* MPI_Barrier (CAF_COMM_WORLD) returns.
fin_barrier(i) ==
  /\ td_pc[i] = "barrier"
  /\ barrier_open(td_arrived, DImages)
  /\ FinStep(i, "barrier", "slave")
  /\ UNCHANGED <<td_img_status, td_stat_lock, td_idx, td_got, td_arrived, td_slave, td_master, td_owns_mpi, td_is_finalized, td_build, td_lock_build>>

\* while (cur_stok): one slave token is detached and freed; at the end of the
\* list, on to the master tokens.
fin_slave_tokens(i) ==
  /\ td_pc[i] = "slave"
  /\ IF td_slave[i] > 0
     THEN /\ td_slave' = [td_slave EXCEPT ![i] = @ - 1]
          /\ FinStep(i, "slave_token", "slave")
     ELSE /\ td_pc' = [td_pc EXCEPT ![i] = "master"]
          /\ UNCHANGED <<td_slave, td_log>>
  /\ UNCHANGED <<td_img_status, td_stat_lock, td_idx, td_got, td_arrived, td_master, td_owns_mpi, td_is_finalized, td_build, td_lock_build>>

\* while (cur_tok): CAF_Win_unlock_all, MPI_Win_free, free of one master
\* token; at the end of the list MPI_Win_free (&global_dynamic_win).
fin_master_tokens(i) ==
  /\ td_pc[i] = "master"
  /\ IF td_master[i] > 0
     THEN /\ td_master' = [td_master EXCEPT ![i] = @ - 1]
          /\ FinStep(i, "master_token", "master")
     ELSE /\ FinStep(i, "dynamic_win", "stat_comm")
          /\ UNCHANGED td_master
  /\ UNCHANGED <<td_img_status, td_stat_lock, td_idx, td_got, td_arrived, td_slave, td_owns_mpi, td_is_finalized, td_build, td_lock_build>>

\* The status window and the communicator: MPI_Comm_free, then MPI_Win_free
\* (stat_tok); with WITH_FAILED_IMAGES the window first.
fin_stat_comm(i) ==
  /\ td_pc[i] \in {"stat_comm", "stat_comm_2"}
  /\ LET first == IF td_build = "plain" THEN "comm" ELSE "stat_win"
         second == IF td_build = "plain" THEN "stat_win" ELSE "comm" IN
     IF td_pc[i] = "stat_comm" THEN FinStep(i, first, "stat_comm_2")
     ELSE FinStep(i, second, "transport")
  /\ UNCHANGED <<td_img_status, td_stat_lock, td_idx, td_got, td_arrived, td_slave, td_master, td_owns_mpi, td_is_finalized, td_build, td_lock_build>>

\* if (caf_owns_mpi) MPI_Finalize ().
fin_transport(i) ==
  /\ td_pc[i] = "transport"
  /\ IF td_owns_mpi THEN FinStep(i, "transport", "mark")
     ELSE td_pc' = [td_pc EXCEPT ![i] = "mark"] /\ UNCHANGED td_log
  /\ UNCHANGED <<td_img_status, td_stat_lock, td_idx, td_got, td_arrived, td_slave, td_master, td_owns_mpi, td_is_finalized, td_build, td_lock_build>>

\* caf_is_finalized = 1.
fin_mark(i) ==
  /\ td_pc[i] = "mark"
  /\ td_is_finalized' = [td_is_finalized EXCEPT ![i] = TRUE]
  /\ FinStep(i, "finalized", "done")
  /\ UNCHANGED <<td_img_status, td_stat_lock, td_idx, td_got, td_arrived, td_slave, td_master, td_owns_mpi, td_build, td_lock_build>>

FinIdle ==
  /\ td_pc = [i \in DImages |-> "off"]
  /\ td_log = [i \in DImages |-> <<>>]
  /\ td_img_status = [i \in DImages |-> 0]
  /\ td_stat_lock = [i \in DImages |-> 0]
  /\ td_idx = [i \in DImages |-> 0]
  /\ td_got = [i \in DImages |-> {}]
  /\ td_arrived = {}
  /\ td_slave = [i \in DImages |-> 0]
  /\ td_master = [i \in DImages |-> 0]
  /\ td_owns_mpi = FALSE
  /\ td_is_finalized = [i \in DImages |-> FALSE]
  /\ td_build = "plain"
  /\ td_lock_build = "MPI_Win_flush"

\* The coarrays are registered on all images alike; component tokens are
\* each image's own.
FinInit ==
  /\ td_pc = [i \in DImages |-> "running"]
  /\ td_log = [i \in DImages |-> <<>>]
  /\ td_img_status = [i \in DImages |-> 0]
  /\ td_stat_lock = [i \in DImages |-> 0]
  /\ td_idx = [i \in DImages |-> 0]
  /\ td_got = [i \in DImages |-> {}]
  /\ td_arrived = {}
  /\ td_slave \in [DImages -> 0 .. MaxFinTokens]
  /\ \E n \in 0 .. MaxFinTokens : td_master = [i \in DImages |-> n]
  /\ td_owns_mpi \in BOOLEAN
  /\ td_is_finalized = [i \in DImages |-> FALSE]
  /\ td_build \in {"plain", "WITH_FAILED_IMAGES"}
  /\ td_lock_build \in {"CAF_MPI_LOCK_UNLOCK", "MPI_Win_flush"}

FinNext ==
  \/ \E i \in DImages : fin_lock(i) /\ UNCHANGED notFinVars
  \/ \E i \in DImages : fin_set_status(i) /\ UNCHANGED notFinVars
  \/ \E i \in DImages : fin_unlock(i) /\ UNCHANGED notFinVars
  \/ \E i \in DImages : fin_send(i) /\ UNCHANGED notFinVars
  \/ \E i \in DImages : fin_barrier(i) /\ UNCHANGED notFinVars
  \/ \E i \in DImages : fin_slave_tokens(i) /\ UNCHANGED notFinVars
  \/ \E i \in DImages : fin_master_tokens(i) /\ UNCHANGED notFinVars
  \/ \E i \in DImages : fin_stat_comm(i) /\ UNCHANGED notFinVars
  \/ \E i \in DImages : fin_transport(i) /\ UNCHANGED notFinVars
  \/ \E i \in DImages : fin_mark(i) /\ UNCHANGED notFinVars

\* The place of a step in the order of the claim; the status window and the
\* communicator are one place.
StepRank(event) ==
  CASE event = "lock" -> 1
    [] event = "status" -> 2
    [] event \in {"unlock", "flush"} -> 3
    [] event = "send" -> 4
    [] event = "barrier" -> 5
    [] event = "slave_token" -> 6
    [] event = "master_token" -> 7
    [] event = "dynamic_win" -> 8
    [] event \in {"stat_win", "comm"} -> 9
    [] event = "transport" -> 10
    [] event = "finalized" -> 11

Count(log, event) == Cardinality({p \in 1 .. Len(log) : log[p] = event})

\* The steps of rank below r have all been made by image i, as often as the
\* claim says, given what image i had at the start.
StepsComplete(i, r) ==
  LET log == td_log[i] IN
  /\ r > 1 => Count(log, "lock") = (IF td_lock_build = "CAF_MPI_LOCK_UNLOCK" THEN 1 ELSE 0)
  /\ r > 2 => Count(log, "status") = 1 /\ td_img_status[i] = STAT_STOPPED_IMAGE
  /\ r > 3 => Count(log, "unlock") + Count(log, "flush") = 1
  /\ r > 4 => Count(log, "send") = FinImages - 1
               /\ \A j \in DImages \ {i} : i \in td_got[j]
  /\ r > 5 => Count(log, "barrier") = 1
  /\ r > 6 => td_slave[i] = 0
  /\ r > 7 => td_master[i] = 0
  /\ r > 8 => Count(log, "dynamic_win") = 1
  /\ r > 9 => Count(log, "stat_win") = 1 /\ Count(log, "comm") = 1
  /\ r > 10 => Count(log, "transport") = (IF td_owns_mpi THEN 1 ELSE 0)

\* On image i the steps of finalize come in the order of the claim: a step
\* is made only when all steps before it are complete, the runtime is marked
\* finalized only at the very end, and no token is released before all images
\* have entered the barrier.
OrderedSteps(i) ==
  /\ \A p \in 1 .. Len(td_log[i]) :
       /\ \A q \in 1 .. p : StepRank(td_log[i][q]) <= StepRank(td_log[i][p])
       /\ p = Len(td_log[i]) => StepsComplete(i, StepRank(td_log[i][p]))
  /\ td_is_finalized[i] <=> (td_log[i] # <<>> /\ td_log[i][Len(td_log[i])] = "finalized")
  /\ td_is_finalized[i] => StepsComplete(i, 11)
  /\ (Count(td_log[i], "master_token") + Count(td_log[i], "slave_token") > 0) =>
       td_arrived = DImages

\* C23: ordered teardown.  On every image the steps of finalize come in the
\* order status word under the exclusive lock, sends to all others, barrier,
\* slave tokens, master tokens, dynamic window, status window and
\* communicator, transport if owned, finalized; no token is released on any
\* image before all images have entered the barrier.
C23_OrderedTeardown ==
  \A i \in DImages :
    /\ OrderedSteps(i)
    /\ td_pc[i] = "unlock" => td_stat_lock[i] = i

\* C23 as the code has it: the same order; the status word is written under
\* the exclusive lock where CAF_Win_lock is MPI_Win_lock, and without a lock,
\* followed by MPI_Win_flush, elsewhere.
C23_OrderedTeardownAmended ==
  \A i \in DImages :
    /\ OrderedSteps(i)
    /\ td_pc[i] = "unlock" =>
         td_stat_lock[i] = (IF td_lock_build = "CAF_MPI_LOCK_UNLOCK" THEN i ELSE 0)

\* Both images have finished a finalize with a slave and a master token and
\* an owned transport, in the build without MPI_Win_lock.
C23_Witness ==
  /\ \A i \in DImages : td_is_finalized[i]
  /\ td_owns_mpi
  /\ td_build = "plain"
  /\ td_log[1] = <<"status", "flush", "send", "barrier", "slave_token",
                   "master_token", "dynamic_win", "comm", "stat_win", "transport",
                   "finalized">>

(***************************************************************************)
(*        ZERO-INITIALISATION OF LOCK AND EVENT OBJECTS IN register        *)
(*                                                                         *)
(* All images register one lock or event object of ZeroSlots slots; an     *)
(* image that has returned from register locks or posts to slots of any    *)
(* image.  Memory from MPI_Win_allocate is not initialised.                *)
(***************************************************************************)
ZeroImages == 2
ZeroSlots == 1
ZImages == 1 .. ZeroImages
ZSlots == 1 .. ZeroSlots

\* What fresh window memory may hold.
Uninitialised == {0, 7}

\* register, l_var: the call enters MPI_Win_allocate; the memory of the
\* window is there, with whatever it holds.
zreg_call(i) ==
  /\ z_pc[i] = "running"
  /\ z_pc' = [z_pc EXCEPT ![i] = "alloc"]
  /\ z_entered' = z_entered \cup {i}
  /\ \E mem \in [ZSlots -> Uninitialised] : z_win' = [z_win EXCEPT ![i] = mem]
  /\ UNCHANGED <<z_synced, z_held, z_posted, z_kind, z_build>>

\* MPI_Win_allocate is collective: it returns when all images have entered.
zreg_allocated(i) ==
  /\ z_pc[i] = "alloc"
  /\ z_entered = ZImages
  /\ z_pc' = [z_pc EXCEPT ![i] = "put"]
  /\ UNCHANGED <<z_win, z_entered, z_synced, z_held, z_posted, z_kind, z_build>>

\* if (l_var): MPI_Put of size zeros into the own window, flushed; then the
\* list push and the return, before GCC 7 after PREFIX(sync_all).
zreg_put(i) ==
  /\ z_pc[i] = "put"
  /\ z_win' = [z_win EXCEPT ![i] = [s \in ZSlots |-> 0]]
  /\ IF z_build = "GCC_GE_7"
     THEN /\ z_pc' = [z_pc EXCEPT ![i] = "returned"]
          /\ UNCHANGED z_synced
     ELSE /\ z_pc' = [z_pc EXCEPT ![i] = "sync_all"]
          /\ z_synced' = z_synced \cup {i}
  /\ UNCHANGED <<z_entered, z_held, z_posted, z_kind, z_build>>

\* PREFIX(sync_all) returns, and register with it (build before GCC 7).
zreg_sync_all(i) ==
  /\ z_pc[i] = "sync_all"
  /\ z_synced = ZImages
  /\ z_pc' = [z_pc EXCEPT ![i] = "returned"]
  /\ UNCHANGED <<z_win, z_entered, z_synced, z_held, z_posted, z_kind, z_build>>

\* mutex_lock: the compare-and-swap 0 -> i on slot s of image j, by an image
\* that has returned from register.
zlock(i, j, s) ==
  /\ z_kind = "lock"
  /\ z_pc[i] = "returned"
  /\ \A h \in z_held : h[3] # i
  /\ IF z_win[j][s] = 0
     THEN /\ z_win' = [z_win EXCEPT ![j][s] = i]
          /\ z_held' = z_held \cup {<<j, s, i>>}
     ELSE UNCHANGED <<z_win, z_held>>
  /\ UNCHANGED <<z_pc, z_entered, z_synced, z_posted, z_kind, z_build>>

\* event_post: the fetch-and-add of 1 on slot s of image j.
zevent_post(i, j, s) ==
  /\ z_kind = "event"
  /\ z_pc[i] = "returned"
  /\ z_posted[j][s] < MaxPosts
  /\ z_win' = [z_win EXCEPT ![j][s] = @ + 1]
  /\ z_posted' = [z_posted EXCEPT ![j][s] = @ + 1]
  /\ UNCHANGED <<z_pc, z_entered, z_synced, z_held, z_kind, z_build>>

ZeroIdle ==
  /\ z_pc = [i \in ZImages |-> "off"]
  /\ z_win = [i \in ZImages |-> [s \in ZSlots |-> 0]]
  /\ z_entered = {}
  /\ z_synced = {}
  /\ z_held = {}
  /\ z_posted = [i \in ZImages |-> [s \in ZSlots |-> 0]]
  /\ z_kind = "lock"
  /\ z_build = "GCC_GE_7"

ZeroInit ==
  /\ z_pc = [i \in ZImages |-> "running"]
  /\ z_win = [i \in ZImages |-> [s \in ZSlots |-> 0]]
  /\ z_entered = {}
  /\ z_synced = {}
  /\ z_held = {}
  /\ z_posted = [i \in ZImages |-> [s \in ZSlots |-> 0]]
  /\ z_kind \in {"lock", "event"}
  /\ z_build \in {"GCC_GE_7", "pre_GCC_7"}

ZeroNext ==
  \/ \E i \in ZImages : zreg_call(i) /\ UNCHANGED notZeroVars
  \/ \E i \in ZImages : zreg_allocated(i) /\ UNCHANGED notZeroVars
  \/ \E i \in ZImages : zreg_put(i) /\ UNCHANGED notZeroVars
  \/ \E i \in ZImages : zreg_sync_all(i) /\ UNCHANGED notZeroVars
  \/ \E i \in ZImages, j \in ZImages, s \in ZSlots : zlock(i, j, s) /\ UNCHANGED notZeroVars
  \/ \E i \in ZImages, j \in ZImages, s \in ZSlots :
       zevent_post(i, j, s) /\ UNCHANGED notZeroVars

\* What the claim lets slot s of image j hold once some image has returned
\* from register: the index of the image whose lock succeeded, the number of
\* posts made, 0 before the first of them.
ZeroExpected(j, s) ==
  IF \E h \in z_held : h[1] = j /\ h[2] = s
  THEN (CHOOSE h \in z_held : h[1] = j /\ h[2] = s)[3]
  ELSE z_posted[j][s]

\* C24: zero-initialised lock and event objects.  Once any image has
\* returned from register, every slot on every image holds 0 until the first
\* lock or event_post on it, and afterwards what the locks and posts of the
\* images that had returned have put there.
C24_ZeroInitialised ==
  (\E i \in ZImages : z_pc[i] = "returned") =>
     \A j \in ZImages, s \in ZSlots : z_win[j][s] = ZeroExpected(j, s)

\* The same for the build before GCC 7 only, where register ends with
\* sync_all.
ZeroInitialisedPreGcc7 == z_build = "pre_GCC_7" => C24_ZeroInitialised

(***************************************************************************)
(*          mutex_lock WITH_FAILED_IMAGES: TAKING OVER A LOCK              *)
(*                                                                         *)
(* One lock slot on image 1, which does not fail; the other images may     *)
(* fail at any time, also while they hold the lock.  An image learns of a  *)
(* failure through image_status.                                           *)
(***************************************************************************)
StealImages == 3
WImages == 1 .. StealImages

\* image_stati[k] on an image whose array is stati: the array has
\* caf_num_images entries, entry j - 1 for image j; beyond it anything.
stati_at(stati, k) ==
  IF k + 1 \in WImages THEN {stati[k + 1]} ELSE {0, STAT_FAILED_IMAGE}

WfReturn(i, how) ==
  /\ wf_pc' = [wf_pc EXCEPT ![i] = "idle"]
  /\ wf_holds' = [wf_holds EXCEPT ![i] = TRUE]
  /\ wf_last' = [img |-> i, how |-> how]

\* mutex_lock without acquired_lock by an image that does not hold the slot:
\* the first compare-and-swap, the return or the entry into the loop.
wf_lock(i) ==
  /\ wf_pc[i] = "idle"
  /\ ~wf_holds[i]
  /\ wf_slot' = MPI_Compare_and_swap(wf_slot, i, 0)
  /\ IF wf_slot = 0
     THEN WfReturn(i, "locked")
     ELSE /\ wf_pc' = [wf_pc EXCEPT ![i] = "spin"]
          /\ UNCHANGED <<wf_holds, wf_last>>
  /\ UNCHANGED wf_image_stati

\* One turn of the loop: the compare-and-swap 0 -> i that returns value; if
\* image_stati[value] is STAT_FAILED_IMAGE, MPI_Compare_and_swap (&zero,
\* &value, &newval, ...), which puts 0 where value is, and break; else the
\* loop goes on while value != 0.
wf_lock_retry(i) ==
  LET value == wf_slot
      swapped == MPI_Compare_and_swap(wf_slot, i, 0) IN
  /\ wf_pc[i] = "spin"
  /\ \E status \in stati_at(wf_image_stati[i], value) :
       IF status = STAT_FAILED_IMAGE
       THEN /\ wf_slot' = MPI_Compare_and_swap(swapped, 0, value)
            /\ WfReturn(i, "break")
       ELSE /\ wf_slot' = swapped
            /\ IF value = 0
               THEN WfReturn(i, "locked_spun")
               ELSE UNCHANGED <<wf_pc, wf_holds, wf_last>>
  /\ UNCHANGED wf_image_stati

\* mutex_unlock by an image that has returned from lock.
wf_unlock(i) ==
  /\ wf_pc[i] = "idle"
  /\ wf_holds[i]
  /\ wf_slot' = MPI_REPLACE(wf_slot, 0)
  /\ wf_holds' = [wf_holds EXCEPT ![i] = FALSE]
  /\ UNCHANGED <<wf_pc, wf_image_stati, wf_last>>

\* Image j fails.
wf_fail(j) ==
  /\ j # 1
  /\ wf_pc[j] # "failed"
  /\ wf_pc' = [wf_pc EXCEPT ![j] = "failed"]
  /\ UNCHANGED <<wf_slot, wf_image_stati, wf_holds, wf_last>>

\* image_status (j) on image i: a failure of j not yet known is noted in
\* image_stati[j - 1].
wf_image_status(i, j) ==
  /\ wf_pc[i] = "idle"
  /\ wf_image_stati[i][j] = 0
  /\ wf_pc[j] = "failed"
  /\ wf_image_stati' = [wf_image_stati EXCEPT ![i][j] = STAT_FAILED_IMAGE]
  /\ UNCHANGED <<wf_slot, wf_pc, wf_holds, wf_last>>

StealIdle ==
  /\ wf_slot = 0
  /\ wf_pc = [i \in WImages |-> "off"]
  /\ wf_image_stati = [i \in WImages |-> [j \in WImages |-> 0]]
  /\ wf_holds = [i \in WImages |-> FALSE]
  /\ wf_last = [img |-> 0, how |-> "none"]

StealInit ==
  /\ wf_slot = 0
  /\ wf_pc = [i \in WImages |-> "idle"]
  /\ wf_image_stati = [i \in WImages |-> [j \in WImages |-> 0]]
  /\ wf_holds = [i \in WImages |-> FALSE]
  /\ wf_last = [img |-> 0, how |-> "none"]

StealNext ==
  \/ \E i \in WImages : wf_lock(i) /\ UNCHANGED notStealVars
  \/ \E i \in WImages : wf_lock_retry(i) /\ UNCHANGED notStealVars
  \/ \E i \in WImages : wf_unlock(i) /\ UNCHANGED notStealVars
  \/ \E j \in WImages : wf_fail(j) /\ UNCHANGED notStealVars
  \/ \E i \in WImages, j \in WImages : wf_image_status(i, j) /\ UNCHANGED notStealVars

\* C29: lock stealing.  A lock call returns only in a step that leaves its
\* caller's index in the slot, and a slot held by an image that has not
\* failed is set to 0 only by an unlock, never by another image's lock call.
C29_LockStealing ==
  [][/\ \A i \in WImages : (wf_holds'[i] /\ ~wf_holds[i]) => wf_slot' = i
     /\ (wf_slot # 0 /\ wf_slot' = 0 /\ wf_pc[wf_slot] # "failed") =>
          \E i \in WImages : wf_holds[i] /\ ~wf_holds'[i]]_vars

(***************************************************************************)
(*                     PENDING PUTS AND explicit_flush                     *)
(*                                                                         *)
(* The calling image (image 1 of PutImages) in the build NONBLOCKING_PUT   *)
(* without CAF_MPI_LOCK_UNLOCK.  A token is named by its number t; in the  *)
(* GCC_GE_7 build the token is a struct whose first member is memptr and   *)
(* whose second is the window memptr_win, before GCC 7 it is a pointer to  *)
(* the window.  Transfers and the exchange of messages of the sync         *)
(* operations are left out: the section follows the list only.             *)
(***************************************************************************)
PutImages == 3
PutTokens == 2
MaxPending == 2
PImages == 1 .. PutImages
PTokens == 1 .. PutTokens

PutBuilds == {"GCC_GE_7", "pre_GCC_7"}

\* The window of token t, as MPI_Put uses it: *TOKEN(token).
put_window(t) == <<"memptr_win", t>>

\* *p for p = w->win, an MPI_Win * that holds the value of a caf_token_t:
\* before GCC 7 the token points to the window; in the GCC_GE_7 build it
\* points to the struct mpi_caf_token_t, whose first member is memptr.
win_at(build, token) ==
  IF build = "GCC_GE_7" THEN <<"memptr", token>> ELSE <<"memptr_win", token>>

\* send, #elif NONBLOCKING_PUT: the list with one more element at last_elem,
\* win = token, img = image_index - 1.
pending_append(fifo, token, image_index) ==
  Append(fifo, [win |-> token, img |-> image_index - 1])

\* explicit_flush: the MPI_Win_flush (w->img, *p) calls, from pending_puts on
\* along next; after it pending_puts = last_elem = NULL.
explicit_flush(build, fifo) ==
  [k \in 1 .. Len(fifo) |-> [win |-> win_at(build, fifo[k].win), img |-> fifo[k].img]]

PutReturn(op, path) == pp_last' = [op |-> op, path |-> path]

\* PREFIX(send) by image 1 as far as the list goes: nothing for size == 0,
\* a memmove for the calling image, the append after the MPI_Put of the
\* contiguous case, CAF_Win_unlock (MPI_Win_flush) in the element-wise case.
put_send(token, image_index, contiguous, empty) ==
  /\ ~pp_finalized
  /\ Len(pp_fifo) < MaxPending
  /\ PutReturn("send", IF empty THEN "empty"
                       ELSE IF ~contiguous THEN "elementwise"
                       ELSE IF image_index = 1 THEN "self" ELSE "put")
  /\ IF ~empty /\ contiguous /\ image_index # 1
     THEN /\ pp_fifo' = pending_append(pp_fifo, token, image_index)
          /\ pp_sent' = Append(pp_sent, [win |-> put_window(token), img |-> image_index - 1])
     ELSE UNCHANGED <<pp_fifo, pp_sent>>
  /\ UNCHANGED <<pp_flushed, pp_finalized, pp_build>>

\* The list, the history and the log after explicit_flush.
PutFlush ==
  /\ pp_flushed' = explicit_flush(pp_build, pp_fifo)
  /\ pp_fifo' = <<>>
  /\ pp_sent' = <<>>

\* PREFIX(sync_memory).
put_sync_memory ==
  /\ PutFlush
  /\ PutReturn("sync_memory", "flushed")
  /\ UNCHANGED <<pp_finalized, pp_build>>

\* PREFIX(sync_all): explicit_flush before the barrier unless caf_is_finalized.
put_sync_all ==
  /\ IF pp_finalized
     THEN /\ PutReturn("sync_all", "finalized")
          /\ pp_flushed' = <<>>
          /\ UNCHANGED <<pp_fifo, pp_sent>>
     ELSE /\ PutReturn("sync_all", "flushed")
          /\ PutFlush
  /\ UNCHANGED <<pp_finalized, pp_build>>

\* sync_images_internal: the early return, the duplicate check and the test
\* of caf_is_finalized all come before explicit_flush.
put_sync_images(args) ==
  /\ IF sync_early(args.count, args.images, 1)
     THEN /\ PutReturn("sync_images", "early")
          /\ pp_flushed' = <<>>
          /\ UNCHANGED <<pp_fifo, pp_sent>>
     ELSE IF has_dup(args.count, args.images)
     THEN /\ PutReturn("sync_images", "duplicate")
          /\ pp_flushed' = <<>>
          /\ UNCHANGED <<pp_fifo, pp_sent>>
     ELSE IF pp_finalized
     THEN /\ PutReturn("sync_images", "finalized")
          /\ pp_flushed' = <<>>
          /\ UNCHANGED <<pp_fifo, pp_sent>>
     ELSE /\ PutReturn("sync_images", "flushed")
          /\ PutFlush
  /\ UNCHANGED <<pp_finalized, pp_build>>

\* finalize_internal (0): caf_is_finalized = 1; the list is not looked at.
put_finalize ==
  /\ ~pp_finalized
  /\ pp_finalized' = TRUE
  /\ PutReturn("finalize", "finalized")
  /\ UNCHANGED <<pp_fifo, pp_sent, pp_flushed, pp_build>>

PutIdle ==
  /\ pp_fifo = <<>>
  /\ pp_sent = <<>>
  /\ pp_flushed = <<>>
  /\ pp_last = [op |-> "none", path |-> "off"]
  /\ pp_finalized = FALSE
  /\ pp_build = "none"

PutInit ==
  /\ pp_fifo = <<>>
  /\ pp_sent = <<>>
  /\ pp_flushed = <<>>
  /\ pp_last = [op |-> "none", path |-> "none"]
  /\ pp_finalized = FALSE
  /\ pp_build \in PutBuilds

PutNext ==
  \/ \E token \in PTokens, image_index \in PImages, contiguous \in BOOLEAN, empty \in BOOLEAN :
       put_send(token, image_index, contiguous, empty) /\ UNCHANGED notPutVars
  \/ put_sync_memory /\ UNCHANGED notPutVars
  \/ put_sync_all /\ UNCHANGED notPutVars
  \/ \E args \in SyncArgs : put_sync_images(args) /\ UNCHANGED notPutVars
  \/ put_finalize /\ UNCHANGED notPutVars

\* The step is a remote contiguous send of a non-empty array.
RemotePut ==
  \E token \in PTokens, image_index \in PImages \ {1} :
    /\ put_send(token, image_index, TRUE, FALSE)
    /\ Len(pp_fifo') = Len(pp_fifo) + 1
    /\ SubSeq(pp_fifo', 1, Len(pp_fifo)) = pp_fifo
    /\ win_at(pp_build, pp_fifo'[Len(pp_fifo')].win) = put_window(token)
    /\ pp_fifo'[Len(pp_fifo')].img = image_index - 1

\* The step flushes window and target of every put made since the last
\* flush, each once, in the order of the puts, and empties the list.
FlushesAll == pp_flushed' = pp_sent /\ pp_fifo' = <<>>

\* C32: deferred flush FIFO.  Every remote contiguous send appends exactly
\* one entry with the window and the target of its put at the tail of the
\* list; sync_memory and sync_all flush window and target of every pending
\* entry exactly once, in insertion order, and leave the list empty.
C32_DeferredFlush ==
  [][/\ pp_last'.path = "put" => RemotePut
     /\ pp_last'.op \in {"sync_memory", "sync_all"} => FlushesAll]_vars

\* The same for the build before GCC 7 and a runtime that is not finalized.
DeferredFlushPreGcc7 ==
  [][(pp_build = "pre_GCC_7" /\ ~pp_finalized) =>
       /\ pp_last'.path = "put" => RemotePut
       /\ pp_last'.op \in {"sync_memory", "sync_all"} => FlushesAll]_vars

\* In every build the list is a FIFO of one entry per put: a sync operation
\* that reaches explicit_flush makes one MPI_Win_flush per entry, in the
\* order of the entries, with the target of the put, and empties the list.
FifoDiscipline ==
  /\ Len(pp_fifo) = Len(pp_sent)
  /\ \A k \in 1 .. Len(pp_fifo) : pp_fifo[k].img = pp_sent[k].img
  /\ pp_last.path = "flushed" => pp_fifo = <<>>

\* C33: every sync operation drains the pending puts.  Whenever sync_memory,
\* sync_all or sync_images has returned, on whatever path, the list of
\* pending puts of the calling image is empty.
C33_SyncDrains ==
  pp_last.op \in {"sync_memory", "sync_all", "sync_images"} => pp_fifo = <<>>

\* The same for the calls that get as far as explicit_flush.
SyncDrainsPastChecks ==
  (pp_last.op \in {"sync_memory", "sync_all", "sync_images"} /\ pp_last.path = "flushed")
    => pp_fifo = <<>>

(***************************************************************************)
(*        failed_stopped_errorhandler_function: SHRINK, SPLIT, AGREE       *)
(*                                                                         *)
(* One invocation of the error handler on one process of the build         *)
(* WITH_FAILED_IMAGES.  A communicator is a record of its id and of the    *)
(* number of processes of its group; the groups are the processes alive    *)
(* when the communicator was made, so two groups of the same size are the  *)
(* same group.  The results of the MPI calls (the error class, the size of *)
(* the group of failed processes, rc of MPI_Comm_split, the return code of *)
(* MPIX_Comm_agree) are inputs; at most MaxRounds rounds fail.             *)
(***************************************************************************)
HandlerImages == 3
MaxRounds == 2
MPI_SUCCESS == 0

ErrorClasses == {"MPIX_ERR_PROC_FAILED", "MPIX_ERR_REVOKED", "MPI_ERR_OTHER"}

\* What an MPI call returns: MPI_SUCCESS or an error code.
ReturnCodes == {MPI_SUCCESS, MPI_SUCCESS + 1}

EhNull == [id |-> 0, members |-> 0]

NoHandlerCall == [err |-> "none", num_failed_in_group |-> 0]

\* The ids of the communicators the handler is invoked on: CAF_COMM_WORLD
\* and alive_comm of init; the handler's own get the ids after these.
WorldId == 1
AliveId == 2

\* `err != MPIX_ERR_PROC_FAILED && err != MPIX_ERR_REVOKED` leads to MPI_Abort.
can_handle(err) == err = "MPIX_ERR_PROC_FAILED" \/ err = "MPIX_ERR_REVOKED"

\* The two returns with *perr = MPI_SUCCESS before the loop.
no_recovery(num_failed_in_group, caf_num_images) ==
  num_failed_in_group <= 0 \/ num_failed_in_group > caf_num_images

\* A plausible slip: the round counts as agreed whatever MPIX_Comm_agree gave.
agree_failed_never(flag) == FALSE

\* `if (MPI_SUCCESS != flag)`: the round has failed.
agree_failed(flag) == MPI_SUCCESS # flag

\* MPI_Comm_compare: "MPI_IDENT" for the same communicator, "MPI_CONGRUENT"
\* for another one over the same group, "MPI_UNEQUAL" otherwise.
MPI_Comm_compare(comm1, comm2) ==
  IF comm1.id = comm2.id THEN "MPI_IDENT"
  ELSE IF comm1.members = comm2.members THEN "MPI_CONGRUENT"
  ELSE "MPI_UNEQUAL"

\* The communicators a round creates: their ids are new in every round.
ShrunkComm(members) == [id |-> AliveId + 2 * eh_round + 1, members |-> members]

SplitComm(members) == [id |-> AliveId + 2 * eh_round + 2, members |-> members]

\* MPI_Comm_free of a valid communicator.
MPI_Comm_free(live, comm) == live \ {comm.id}

\* The handler from its entry to the label redo: MPI_Abort for an error class
\* it cannot handle, the returns for no failed process, num_images_failed.
eh_enter(err, num_failed_in_group) ==
  /\ eh_pc = "idle"
  /\ eh_call' = [err |-> err, num_failed_in_group |-> num_failed_in_group]
  /\ IF ~can_handle(err)
     THEN /\ eh_pc' = "aborted"
          /\ UNCHANGED <<eh_perr, eh_num_failed>>
     ELSE IF no_recovery(num_failed_in_group, HandlerImages)
     THEN /\ eh_pc' = "returned"
          /\ eh_perr' = MPI_SUCCESS
          /\ UNCHANGED eh_num_failed
     ELSE /\ eh_pc' = "redo"
          /\ eh_num_failed' = eh_num_failed + num_failed_in_group
          /\ UNCHANGED eh_perr
  /\ UNCHANGED <<eh_pcomm, eh_alive_comm, eh_shrunk, eh_newcomm, eh_rc, eh_flag,
                 eh_stat_win, eh_live, eh_round>>

\* redo: ierr = MPIX_Comm_shrink of the communicator at pcomm into shrunk; ierr
\* is not looked at.
eh_shrink(ierr, members) ==
  /\ eh_pc = "redo"
  /\ ierr # MPI_SUCCESS => eh_round < MaxRounds
  /\ eh_pc' = "shrunk"
  /\ IF ierr = MPI_SUCCESS
     THEN /\ eh_shrunk' = ShrunkComm(members)
          /\ eh_live' = eh_live \cup {ShrunkComm(members).id}
     ELSE UNCHANGED <<eh_shrunk, eh_live>>
  /\ UNCHANGED <<eh_call, eh_pcomm, eh_alive_comm, eh_newcomm, eh_rc, eh_flag, eh_perr,
                 eh_stat_win, eh_round, eh_num_failed>>

\* rc = MPI_Comm_split (shrunk, ..., &newcomm): it cannot succeed on a shrunk
\* that is no communicator.
eh_split(rc) ==
  /\ eh_pc = "shrunk"
  /\ rc # MPI_SUCCESS => eh_round < MaxRounds
  /\ rc = MPI_SUCCESS => eh_shrunk # EhNull
  /\ eh_pc' = "split"
  /\ eh_rc' = rc
  /\ IF rc = MPI_SUCCESS
     THEN /\ eh_newcomm' = SplitComm(eh_shrunk.members)
          /\ eh_live' = eh_live \cup {SplitComm(eh_shrunk.members).id}
     ELSE UNCHANGED <<eh_newcomm, eh_live>>
  /\ UNCHANGED <<eh_call, eh_pcomm, eh_alive_comm, eh_shrunk, eh_flag, eh_perr,
                 eh_stat_win, eh_round, eh_num_failed>>

\* flag = MPIX_Comm_agree (newcomm, &flag); MPI_Comm_free (&shrunk); after a
\* failed round MPI_Comm_free (&newcomm) if the split had succeeded, and
\* goto redo.  The call cannot succeed on a newcomm that is no communicator.
eh_agree(flag) ==
  /\ eh_pc = "split"
  /\ flag # MPI_SUCCESS => eh_round < MaxRounds
  /\ flag = MPI_SUCCESS => eh_newcomm # EhNull
  /\ eh_flag' = flag
  /\ eh_shrunk' = EhNull
  /\ IF agree_failed(flag)
     THEN /\ eh_pc' = "redo"
          /\ eh_round' = eh_round + 1
          /\ IF MPI_SUCCESS = eh_rc
             THEN /\ eh_live' = MPI_Comm_free(MPI_Comm_free(eh_live, eh_shrunk), eh_newcomm)
                  /\ eh_newcomm' = EhNull
             ELSE /\ eh_live' = MPI_Comm_free(eh_live, eh_shrunk)
                  /\ UNCHANGED eh_newcomm
     ELSE /\ eh_pc' = "agreed"
          /\ eh_live' = MPI_Comm_free(eh_live, eh_shrunk)
          /\ UNCHANGED <<eh_round, eh_newcomm>>
  /\ UNCHANGED <<eh_call, eh_pcomm, eh_alive_comm, eh_rc, eh_perr, eh_stat_win,
                 eh_num_failed>>

\* After the loop: stat_tok is freed and created anew over newcomm if *pcomm
\* is congruent to alive_comm; MPI_Comm_free (pcomm); *pcomm = newcomm;
\* alive_comm = newcomm; *perr = stopped ? STAT_STOPPED_IMAGE :
\* STAT_FAILED_IMAGE, where stopped is never set.
eh_replace ==
  /\ eh_pc = "agreed"
  /\ eh_pc' = "returned"
  /\ eh_stat_win' = IF MPI_Comm_compare(eh_pcomm, eh_alive_comm) = "MPI_CONGRUENT"
                    THEN eh_newcomm.id ELSE eh_stat_win
  /\ eh_live' = MPI_Comm_free(eh_live, eh_pcomm)
  /\ eh_pcomm' = eh_newcomm
  /\ eh_alive_comm' = eh_newcomm
  /\ eh_perr' = STAT_FAILED_IMAGE
  /\ UNCHANGED <<eh_call, eh_shrunk, eh_newcomm, eh_rc, eh_flag, eh_round, eh_num_failed>>

HandlerIdle ==
  /\ eh_pc = "off"
  /\ eh_call = NoHandlerCall
  /\ eh_pcomm = EhNull
  /\ eh_alive_comm = EhNull
  /\ eh_shrunk = EhNull
  /\ eh_newcomm = EhNull
  /\ eh_rc = MPI_SUCCESS
  /\ eh_flag = MPI_SUCCESS
  /\ eh_perr = NoValue
  /\ eh_stat_win = 0
  /\ eh_live = {}
  /\ eh_round = 0
  /\ eh_num_failed = 0

\* CAF_COMM_WORLD and alive_comm are duplicates of MPI_COMM_WORLD, the window
\* stat_tok is over CAF_COMM_WORLD; an earlier invocation on alive_comm may
\* have left alive_comm over fewer processes.  The handler is invoked on one
\* of the two.
HandlerInit ==
  /\ eh_pc = "idle"
  /\ eh_call = NoHandlerCall
  /\ \E members \in 2 .. HandlerImages :
       /\ eh_alive_comm = [id |-> AliveId, members |-> members]
       /\ eh_pcomm \in {[id |-> WorldId, members |-> HandlerImages], eh_alive_comm}
  /\ eh_shrunk = EhNull
  /\ eh_newcomm = EhNull
  /\ eh_rc = MPI_SUCCESS
  /\ eh_flag = MPI_SUCCESS
  /\ eh_perr = NoValue
  /\ eh_stat_win = WorldId
  /\ eh_live = {WorldId, AliveId}
  /\ eh_round = 0
  /\ eh_num_failed \in 0 .. 1

HandlerNext ==
  \/ \E err \in ErrorClasses, num_failed_in_group \in 0 .. HandlerImages - 1 :
       /\ err = "MPIX_ERR_PROC_FAILED" => num_failed_in_group > 0
       /\ eh_enter(err, num_failed_in_group)
       /\ UNCHANGED notHandlerVars
  \/ \E ierr \in ReturnCodes, members \in 1 .. HandlerImages - 1 :
       /\ members <= eh_pcomm.members - eh_call.num_failed_in_group
       /\ eh_shrink(ierr, members)
       /\ UNCHANGED notHandlerVars
  \/ \E rc \in ReturnCodes : eh_split(rc) /\ UNCHANGED notHandlerVars
  \/ \E flag \in ReturnCodes : eh_agree(flag) /\ UNCHANGED notHandlerVars
  \/ eh_replace /\ UNCHANGED notHandlerVars

\* The error classes "process failed" and "revoked".
Recoverable == {"MPIX_ERR_PROC_FAILED", "MPIX_ERR_REVOKED"}

\* The communicators the handler has made in the rounds so far.
MadeByHandler == eh_live \ {WorldId, AliveId}

\* The step replaces a communicator or makes the status window anew.
Replaces ==
  eh_pcomm' # eh_pcomm \/ eh_alive_comm' # eh_alive_comm \/ eh_stat_win' # eh_stat_win

\* What holds of the loop and of what follows it: the communicators of a
\* failed round are released, nothing is replaced but after an agree that
\* returned MPI_SUCCESS, and the handler then leaves STAT_FAILED_IMAGE.
LoopAndReplace ==
  /\ (eh_pc = "split" /\ eh_pc' = "redo") => MadeByHandler' = {}
  /\ eh_pc' = "redo" => (eh_pcomm' = eh_pcomm /\ eh_alive_comm' = eh_alive_comm)
  /\ Replaces => (eh_pc = "agreed" /\ eh_flag = MPI_SUCCESS /\ eh_pc' = "returned")
  /\ (eh_pc = "agreed" /\ eh_pc' = "returned") =>
       /\ eh_pcomm' = eh_newcomm /\ eh_alive_comm' = eh_newcomm
       /\ eh_perr' = STAT_FAILED_IMAGE
       /\ MadeByHandler' = {eh_newcomm.id}

\* C34: failure recovery loop.  The handler aborts for every error class but
\* process-failed and revoked; for these two it enters the loop of shrink,
\* split and agree, which it repeats until an agree succeeds, releasing the
\* communicators of every failed round; it replaces the communicator and
\* makes the status window anew only after a successful agree and then
\* leaves STAT_FAILED_IMAGE as the error code.
C34_RecoveryLoop ==
  [][/\ eh_pc = "idle" =>
          IF eh_call'.err \in Recoverable THEN eh_pc' = "redo" ELSE eh_pc' = "aborted"
     /\ (eh_pc # "returned" /\ eh_pc' = "returned") => eh_perr' = STAT_FAILED_IMAGE
     /\ LoopAndReplace]_vars

\* C34 as the code has it: for the two classes the handler enters the loop
\* only if the group of acknowledged failed processes has between 1 and
\* caf_num_images members; otherwise it leaves MPI_SUCCESS as the error code
\* and returns with every communicator and the status window as they were.
C34_RecoveryLoopAmended ==
  [][/\ eh_pc = "idle" =>
          IF eh_call'.err \notin Recoverable THEN eh_pc' = "aborted"
          ELSE IF eh_call'.num_failed_in_group \notin 1 .. HandlerImages
          THEN /\ eh_pc' = "returned" /\ eh_perr' = MPI_SUCCESS
               /\ ~Replaces /\ eh_live' = eh_live
          ELSE eh_pc' = "redo"
     /\ LoopAndReplace]_vars

\* C34 witness: after one round that failed in its agree the handler has
\* replaced the communicator it was invoked on, which was CAF_COMM_WORLD,
\* made the status window anew and left STAT_FAILED_IMAGE.
C34_Witness ==
  /\ eh_pc = "returned"
  /\ eh_round = 1
  /\ eh_perr = STAT_FAILED_IMAGE
  /\ eh_pcomm = eh_alive_comm /\ eh_pcomm = eh_newcomm
  /\ eh_stat_win = eh_newcomm.id
  /\ WorldId \notin eh_live

(***************************************************************************)
(*              WINDOW LOCKS AROUND THE RMA OF AN OPERATION                *)
(*                                                                         *)
(* Image 1 of WlImages in the build CAF_MPI_LOCK_UNLOCK (GCC_GE_7, MPI 3,  *)
(* no STRIDED), where CAF_Win_lock is MPI_Win_lock and CAF_Win_unlock is   *)
(* MPI_Win_unlock.  One coarray with its window memptr_win, and the window *)
(* global_dynamic_win.  An operation is one step: the sequence of its      *)
(* lock, RMA and unlock calls on the path it takes; the data moved are     *)
(* left out.  wl_last.rma keeps every RMA call with the locks held at the  *)
(* call.                                                                   *)
(***************************************************************************)
WlImages == 2
MaxElements == 2
WlTargets == 1 .. WlImages

NoLocks == {}

\* MPI_Win_lock (type, img, 0, win): the locks held after it.
Win_lock(held, type, img, win) == held \cup {[type |-> type, img |-> img, win |-> win]}

\* MPI_Win_unlock (img, win): the locks held after it.
Win_unlock(held, img, win) == {l \in held : ~(l.img = img /\ l.win = win)}

\* The lock is asked for while the image holds one on that window and target.
Relock(held, img, win) == \E l \in held : l.img = img /\ l.win = win

\* An RMA call and the locks held when it is made.
Rma(call, img, win, held) == [call |-> call, img |-> img, win |-> win, held |-> held]

\* lock, one RMA call, unlock: the pattern of locking_atomic_op, the atomics,
\* the events and the contiguous transfers.
LockedRma(held, type, call, img, win) ==
  [rma |-> <<Rma(call, img, win, Win_lock(held, type, img, win))>>,
   held |-> Win_unlock(Win_lock(held, type, img, win), img, win),
   fault |-> Relock(held, img, win)]

\* One operation after another.
Then(a, b) ==
  [rma |-> a.rma \o b.rma, held |-> b.held, fault |-> a.fault \/ b.fault]

Nothing(held) == [rma |-> <<>>, held |-> held, fault |-> FALSE]

\* The operation has returned on this path with these calls.
WlReturn(op, path, r) ==
  /\ wl_last' = [op |-> op, path |-> path, rma |-> r.rma]
  /\ wl_held' = r.held
  /\ wl_fault' = (wl_fault \/ r.fault)

\* PREFIX(get): return for size == 0; memmove for a contiguous array of the
\* calling image; lock, MPI_Get, unlock for a contiguous array of another
\* image; otherwise one lock around the loop over the elements, which makes
\* an MPI_Get for an element of another image.
wl_get(image_index, path, size) ==
  LET img == image_index - 1
      locked == Win_lock(wl_held, "MPI_LOCK_SHARED", img, "memptr_win") IN
  /\ path \in {"empty", "contiguous", "elements"}
  /\ WlReturn("get", path,
       IF path = "empty" THEN Nothing(wl_held)
       ELSE IF path = "contiguous"
       THEN IF image_index = 1 THEN Nothing(wl_held)
            ELSE LockedRma(wl_held, "MPI_LOCK_SHARED", "MPI_Get", img, "memptr_win")
       ELSE [rma |-> IF image_index = 1 THEN <<>>
                     ELSE [k \in 1 .. size |-> Rma("MPI_Get", img, "memptr_win", locked)],
             held |-> Win_unlock(locked, img, "memptr_win"),
             fault |-> Relock(wl_held, img, "memptr_win")])

\* PREFIX(send): as get, with MPI_LOCK_EXCLUSIVE and MPI_Put.
wl_send(image_index, path, size) ==
  LET img == image_index - 1
      locked == Win_lock(wl_held, "MPI_LOCK_EXCLUSIVE", img, "memptr_win") IN
  /\ path \in {"empty", "contiguous", "elements"}
  /\ WlReturn("send", path,
       IF path = "empty" THEN Nothing(wl_held)
       ELSE IF path = "contiguous"
       THEN IF image_index = 1 THEN Nothing(wl_held)
            ELSE LockedRma(wl_held, "MPI_LOCK_EXCLUSIVE", "MPI_Put", img, "memptr_win")
       ELSE [rma |-> IF image_index = 1 THEN <<>>
                     ELSE [k \in 1 .. size |-> Rma("MPI_Put", img, "memptr_win", locked)],
             held |-> Win_unlock(locked, img, "memptr_win"),
             fault |-> Relock(wl_held, img, "memptr_win")])

\* One element (or the whole contiguous array) of sendget: lock, MPI_Get,
\* unlock on the source image, then lock, MPI_Put, unlock on the destination.
RECURSIVE sendget_rma(_, _, _, _)
sendget_rma(held, img_g, img_s, n) ==
  IF n = 0 THEN Nothing(held)
  ELSE LET first == sendget_rma(held, img_g, img_s, n - 1)
           g == LockedRma(first.held, "MPI_LOCK_SHARED", "MPI_Get", img_g, "memptr_win") IN
       Then(first,
            Then(g, LockedRma(g.held, "MPI_LOCK_EXCLUSIVE", "MPI_Put", img_s, "memptr_win")))

\* PREFIX(sendget).
wl_sendget(image_index_s, image_index_g, path, size) ==
  /\ path \in {"empty", "contiguous", "elements"}
  /\ WlReturn("sendget", path,
       IF path = "empty" THEN Nothing(wl_held)
       ELSE sendget_rma(wl_held, image_index_g - 1, image_index_s - 1,
                        IF path = "contiguous" THEN 1 ELSE size))

\* _gfortran_caf_get_by_ref: both windows are locked before the references
\* are looked at; `if (delta <= 0) return;` for a section without elements
\* and `if (size == 0 || src_size == 0) return;` leave without unlocking;
\* otherwise get_for_ref makes its MPI_Get calls and both are unlocked.
wl_get_by_ref(image_index, path, size) ==
  LET remote_image == image_index - 1
      l1 == Win_lock(wl_held, "MPI_LOCK_SHARED", remote_image, "global_dynamic_win")
      l2 == Win_lock(l1, "MPI_LOCK_SHARED", remote_image, "memptr_win")
      fault == \/ Relock(wl_held, remote_image, "global_dynamic_win")
               \/ Relock(wl_held, remote_image, "memptr_win") IN
  /\ path \in {"delta <= 0", "size == 0", "get_for_ref"}
  /\ WlReturn("get_by_ref", path,
       IF path = "get_for_ref"
       THEN [rma |-> [k \in 1 .. size |-> Rma("MPI_Get", remote_image, "memptr_win", l2)],
             held |-> Win_unlock(Win_unlock(l2, remote_image, "global_dynamic_win"),
                                 remote_image, "memptr_win"),
             fault |-> fault]
       ELSE [rma |-> <<>>, held |-> l2, fault |-> fault])

\* PREFIX(is_present): for a component with a token lock, MPI_Get, unlock on
\* memptr_win; then global_dynamic_win is locked, read and unlocked.
wl_is_present(image_index, component) ==
  LET remote_image == image_index - 1
      first == IF component
               THEN LockedRma(wl_held, "MPI_LOCK_SHARED", "MPI_Get", remote_image,
                              "memptr_win")
               ELSE Nothing(wl_held) IN
  WlReturn("is_present", IF component THEN "component" ELSE "array",
    Then(first, LockedRma(first.held, "MPI_LOCK_SHARED", "MPI_Get", remote_image,
                          "global_dynamic_win")))

\* atomic_define, atomic_ref, atomic_cas, atomic_op, event_post, event_query:
\* image_index 0 is the calling image; lock, one RMA call, unlock.
wl_atomic(op, call, image_index) ==
  /\ <<op, call>> \in {<<"atomic_define", "MPI_Accumulate">>,
                       <<"atomic_ref", "MPI_Fetch_and_op">>,
                       <<"atomic_cas", "MPI_Compare_and_swap">>,
                       <<"atomic_op", "MPI_Fetch_and_op">>,
                       <<"event_post", "MPI_Accumulate">>,
                       <<"event_query", "MPI_Fetch_and_op">>}
  /\ WlReturn(op, "rma",
       LockedRma(wl_held, "MPI_LOCK_EXCLUSIVE", call,
                 dest_img(1, image_index) - 1, "memptr_win"))

\* event_wait: always on the calling image; lock, MPI_Fetch_and_op, unlock
\* after the loops.
wl_event_wait ==
  WlReturn("event_wait", "rma",
    LockedRma(wl_held, "MPI_LOCK_EXCLUSIVE", "MPI_Fetch_and_op", 0, "memptr_win"))

\* n calls of locking_atomic_op.
RECURSIVE locking_rma(_, _, _)
locking_rma(held, img, n) ==
  IF n = 0 THEN Nothing(held)
  ELSE LET first == locking_rma(held, img, n - 1) IN
       Then(first, LockedRma(first.held, "MPI_LOCK_EXCLUSIVE", "MPI_Compare_and_swap",
                             img, "memptr_win"))

\* PREFIX(lock): locking_atomic_op once, and once more for every turn of the
\* retry loop.  PREFIX(unlock): lock, MPI_Fetch_and_op, unlock.
wl_lock(image_index, turns) ==
  WlReturn("lock", "rma", locking_rma(wl_held, dest_img(1, image_index) - 1, 1 + turns))

wl_unlock(image_index) ==
  WlReturn("unlock", "rma",
    LockedRma(wl_held, "MPI_LOCK_EXCLUSIVE", "MPI_Fetch_and_op",
              dest_img(1, image_index) - 1, "memptr_win"))

WinLockIdle ==
  /\ wl_held = NoLocks
  /\ wl_last = [op |-> "none", path |-> "off", rma |-> <<>>]
  /\ wl_fault = FALSE

WinLockInit ==
  /\ wl_held = NoLocks
  /\ wl_last = [op |-> "none", path |-> "none", rma |-> <<>>]
  /\ wl_fault = FALSE

WlPaths == {"empty", "contiguous", "elements"}

WinLockNext ==
  \/ \E image_index \in WlTargets, path \in WlPaths, size \in 1 .. MaxElements :
       wl_get(image_index, path, size) /\ UNCHANGED notWinLockVars
  \/ \E image_index \in WlTargets, path \in WlPaths, size \in 1 .. MaxElements :
       wl_send(image_index, path, size) /\ UNCHANGED notWinLockVars
  \/ \E image_index_s \in WlTargets, image_index_g \in WlTargets, path \in WlPaths,
        size \in 1 .. MaxElements :
       wl_sendget(image_index_s, image_index_g, path, size) /\ UNCHANGED notWinLockVars
  \/ \E image_index \in WlTargets, path \in {"delta <= 0", "size == 0", "get_for_ref"},
        size \in 1 .. MaxElements :
       wl_get_by_ref(image_index, path, size) /\ UNCHANGED notWinLockVars
  \/ \E image_index \in WlTargets, component \in BOOLEAN :
       wl_is_present(image_index, component) /\ UNCHANGED notWinLockVars
  \/ \E op \in {"atomic_define", "atomic_ref", "atomic_cas", "atomic_op", "event_post",
                "event_query"},
        call \in {"MPI_Accumulate", "MPI_Fetch_and_op", "MPI_Compare_and_swap"},
        image_index \in 0 .. WlImages :
       wl_atomic(op, call, image_index) /\ UNCHANGED notWinLockVars
  \/ wl_event_wait /\ UNCHANGED notWinLockVars
  \/ \E image_index \in 0 .. WlImages, turns \in 0 .. 1 :
       wl_lock(image_index, turns) /\ UNCHANGED notWinLockVars
  \/ \E image_index \in 0 .. WlImages : wl_unlock(image_index) /\ UNCHANGED notWinLockVars

\* Every RMA call of the last operation was made with a lock of this type,
\* taken by the operation itself, on its window and target.
RmaUnder(type) ==
  \A k \in 1 .. Len(wl_last.rma) :
    [type |-> type, img |-> wl_last.rma[k].img, win |-> wl_last.rma[k].win]
      \in wl_last.rma[k].held

\* C35: window lock balance.  The MPI_Get calls of get are made under a
\* shared lock and the MPI_Put calls of send under an exclusive lock on the
\* target window, and whenever one of get, send, sendget, get_by_ref,
\* is_present, the atomics, lock, unlock and the event operations has
\* returned, on whatever path, the image holds no window lock.
C35_LockBalance ==
  /\ wl_last.op = "get" => RmaUnder("MPI_LOCK_SHARED")
  /\ wl_last.op = "send" => RmaUnder("MPI_LOCK_EXCLUSIVE")
  /\ wl_held = NoLocks

\* The locks an operation takes are those the claim names, and every
\* operation but get_by_ref that starts with no lock held ends with none;
\* get_by_ref does so on the path that reaches get_for_ref.
BalancedButGetByRef ==
  [][/\ wl_last'.op = "get" => RmaUnder("MPI_LOCK_SHARED")'
     /\ wl_last'.op = "send" => RmaUnder("MPI_LOCK_EXCLUSIVE")'
     /\ (/\ wl_held = NoLocks
         /\ (wl_last'.op # "get_by_ref" \/ wl_last'.path = "get_for_ref"))
          => wl_held' = NoLocks]_vars

(***************************************************************************)
(*              SEND AND GET WHOSE IMAGE IS THE CALLING IMAGE               *)
(*                                                                         *)
(* caf_this_image == image_index: source and destination are sections of   *)
(* the memory of the calling image, which is addressed in elements;        *)
(* base_addr of a descriptor is the address of its first element.  Source   *)
(* and destination have the same type, kind, element size and shape.       *)
(* Build without STRIDED.                                                  *)
(***************************************************************************)
MaxOffset == 1

\* The addresses the calls below can compute: a base address in the parent
\* array plus an offset within it plus the argument offset.
SelfCells == 0 .. 2 * ParentExtent * ParentExtent - 1

\* The memory before the call: every element holds a value of its own.
SelfMem0 == [k \in SelfCells |-> k]

NoSelfCall == [op |-> "none"]

\* memmove (to, from, n): n elements, as if through a temporary.
memmove(mem, to, from, n) ==
  [k \in SelfCells |-> IF k \in to .. to + n - 1 THEN mem[from + (k - to)] ELSE mem[k]]

\* The loop `for (i = 0; i < size; i++) memmove (to[i], from[i], 1)` after
\* its first n rounds; to and from are indexed from 1.
RECURSIVE memmove_each(_, _, _, _)
memmove_each(mem, to, from, n) ==
  IF n = 0 THEN mem
  ELSE LET m == memmove_each(mem, to, from, n - 1) IN
       [m EXCEPT ![to[n]] = m[from[n]]]

\* The loop `for (i = 0; i < size; i++) if (buff_map[i]) memmove (to[i],
\* t_buff + i, 1)` after its first n rounds.
RECURSIVE from_t_buff(_, _, _, _)
from_t_buff(mem, to, t_buff, n) ==
  IF n = 0 THEN mem
  ELSE [from_t_buff(mem, to, t_buff, n - 1) EXCEPT ![to[n]] = t_buff[n]]

\* send: the second loop writes the temporary at src->base_addr + dst_offset.
send_t_buff_to(src, dest) == src.off

\* PREFIX(send) with image_index == caf_this_image: what it makes of mem.
self_send_mem(mem, src, dest, offset, mrt) ==
  LET rank == Len(dest.dim)
      size == xfer_size(rank, dest.dim)
      sr == [i \in 1 .. size |-> src.off + array_offset(src.dim, rank, i - 1)]
      dst_off == [i \in 1 .. size |-> dst_offset(offset, dest.dim, rank, i - 1)] IN
  IF one_transfer(rank, is_contiguous(dest) /\ is_contiguous(src))
  THEN memmove(mem, dest.off, src.off, size)
  ELSE IF ~mrt
       THEN memmove_each(mem, [i \in 1 .. size |-> dest.off + dst_off[i]], sr, size)
       ELSE from_t_buff(mem,
                        [i \in 1 .. size |-> send_t_buff_to(src, dest) + dst_off[i]],
                        [i \in 1 .. size |-> mem[sr[i]]], size)

\* PREFIX(get) with image_index == caf_this_image: what it makes of mem.
\* With mrt the first loop copies dst, the element of the destination, into
\* the temporary, and the second writes it at dest->base_addr + sr_off.
self_get_mem(mem, src, dest, offset, mrt) ==
  LET rank == Len(src.dim)
      size == xfer_size(rank, dest.dim)
      sr == [i \in 1 .. size |-> src.off + array_offset(src.dim, rank, i - 1)]
      dst == [i \in 1 .. size |-> dest.off + array_offset(dest.dim, rank, i - 1)] IN
  IF one_transfer(rank, is_contiguous(dest) /\ is_contiguous(src))
  THEN memmove(mem, dest.off, src.off, size)
  ELSE IF ~mrt
       THEN memmove_each(mem, dst, sr, size)
       ELSE from_t_buff(mem,
                        [i \in 1 .. size |-> dest.off + sr_off(offset, src.dim, rank, i - 1)],
                        [i \in 1 .. size |-> mem[dst[i]]], size)

\* PREFIX(send) of section src to section dest of the calling image.
self_send(src, dest, offset, mrt) ==
  /\ sa_pc = "start"
  /\ sa_pc' = "done"
  /\ sa_call' = [op |-> "send", src |-> src, dest |-> dest, offset |-> offset,
                 mrt |-> mrt]
  /\ sa_mem' = self_send_mem(sa_mem, src, dest, offset, mrt)

\* PREFIX(get) of section src of the calling image into section dest.
self_get(src, dest, offset, mrt) ==
  /\ sa_pc = "start"
  /\ sa_pc' = "done"
  /\ sa_call' = [op |-> "get", src |-> src, dest |-> dest, offset |-> offset,
                 mrt |-> mrt]
  /\ sa_mem' = self_get_mem(sa_mem, src, dest, offset, mrt)

SelfIdle == sa_pc = "start" /\ sa_mem = SelfMem0 /\ sa_call = NoSelfCall

SelfInit == SelfIdle

SelfNext ==
  \/ \E p \in SectionPairs, offset \in 0 .. MaxOffset, mrt \in BOOLEAN :
       self_send(p[1], p[2], offset, mrt) /\ UNCHANGED notSelfVars
  \/ \E p \in SectionPairs, offset \in 0 .. MaxOffset, mrt \in BOOLEAN :
       self_get(p[1], p[2], offset, mrt) /\ UNCHANGED notSelfVars

\* The address of element i of a section.
elem_at(desc, i) ==
  IF Len(desc.dim) = 0 THEN desc.off
  ELSE desc.off + array_offset(desc.dim, Len(desc.dim), i)

\* The number of elements of a section.
elems(desc) == xfer_size(Len(desc.dim), desc.dim)

\* The elements of a section.
SectionCells(desc) == {elem_at(desc, i) : i \in 0 .. elems(desc) - 1}

\* The destination equals the source section as it was before the call, and
\* nothing outside the destination section is written.
CopiedExactly ==
  /\ \A i \in 0 .. elems(sa_call.dest) - 1 :
       sa_mem[elem_at(sa_call.dest, i)] = SelfMem0[elem_at(sa_call.src, i)]
  /\ \A k \in SelfCells \ SectionCells(sa_call.dest) : sa_mem[k] = SelfMem0[k]

\* C36 as stated: a send or get whose image is the calling image and whose
\* may_require_temp flag is set leaves the destination equal to the source
\* section as it was before the call, also when source and destination
\* overlap, and writes nowhere outside the destination section.
C36_SelfAccessTemp == sa_pc = "done" /\ sa_call.mrt => CopiedExactly

\* The call took the path of one memmove: a scalar, or both sections
\* contiguous.
SelfOneTransfer ==
  one_transfer(Len(sa_call.dest.dim),
               is_contiguous(sa_call.dest) /\ is_contiguous(sa_call.src))

\* What holds of the calls with may_require_temp: on the path of one memmove
\* the copy is exact, overlap included.
SelfAccessOneTransfer ==
  sa_pc = "done" /\ sa_call.mrt /\ SelfOneTransfer => CopiedExactly

\* A call with may_require_temp of overlapping contiguous sections has been
\* made and has copied exactly.
SelfOverlapCopied ==
  /\ sa_pc = "done" /\ sa_call.mrt /\ SelfOneTransfer
  /\ sa_call.src.off # sa_call.dest.off
  /\ SectionCells(sa_call.src) \cap SectionCells(sa_call.dest) # {}
  /\ CopiedExactly

(***************************************************************************)
(*        THE ELEMENTS VISITED BY THE COLLECTIVES AND BY THE TRANSFERS      *)
(*                                                                         *)
(* internal_co_reduce, co_broadcast and send on the same descriptor: the   *)
(* offsets from base_addr, in elements, of what each hands to MPI, in the  *)
(* order of its loop.  Build without STRIDED.                              *)
(***************************************************************************)
UnravelOps == {"co_reduce", "co_broadcast", "send"}

\* The descriptors of the reductions, and the sections a(1:3:2, :, :) of an
\* array a(4, 2, 2).
UnravelSources ==
  CoSources
  \cup {<<Bounds(1, e[1], 2), Bounds(1, e[2], 4), Bounds(1, e[3], 8)>> :
          e \in [1 .. 3 -> 1 .. 2]}

\* co_broadcast: one MPI_Bcast for a scalar, else one per element at
\* array_offset_sr, computed as in internal_co_reduce.
co_broadcast_at(a, k) ==
  IF Len(a) = 0 THEN k ELSE array_offset_sr(a, Len(a), k)

\* send: one MPI_Put of the first size elements for a scalar or a contiguous
\* array, else one per element at array_offset_dst.
send_at(dest, k) ==
  IF one_transfer(Len(dest), is_contiguous([dim |-> dest])) THEN k
  ELSE array_offset(dest, Len(dest), k)

\* The offsets of the elements 0 .. size - 1 in the order of the loop of op.
visit(op, source) ==
  [i \in 1 .. xfer_size(Len(source), source) |->
     CASE op = "co_reduce" -> co_reduce_at(source, i - 1)
       [] op = "co_broadcast" -> co_broadcast_at(source, i - 1)
       [] op = "send" -> send_at(source, i - 1)]

\* One of the three operations runs on the descriptor.
unravel(op) ==
  /\ u_source # "none"
  /\ u_visit[op] = <<>>
  /\ u_visit' = [u_visit EXCEPT ![op] = visit(op, u_source)]
  /\ UNCHANGED u_source

UnravelIdle == u_source = "none" /\ u_visit = <<>>

UnravelInit ==
  /\ u_source \in UnravelSources
  /\ u_visit = [op \in UnravelOps |-> <<>>]

UnravelNext ==
  \/ unravel("co_reduce") /\ UNCHANGED notUnravelVars
  \/ unravel("co_broadcast") /\ UNCHANGED notUnravelVars
  \/ unravel("send") /\ UNCHANGED notUnravelVars

\* The three operations have run on a descriptor of rank > 0 that is not
\* contiguous.
UnravelledSection ==
  /\ u_source # "none" /\ Len(u_source) > 0
  /\ ~is_contiguous([dim |-> u_source])
  /\ \A op \in UnravelOps : u_visit[op] # <<>>

\* The offsets of the elements of the array.
ElementsOf(source) ==
  LET offs == SecOffsets([off |-> 0, dim |-> source]) IN {offs[i] : i \in DOMAIN offs}

\* The loops of co_reduce and co_broadcast visit the offsets of the loop of
\* send, in its order, and each offset is that of an element of the array.
SameUnravel ==
  /\ u_visit["co_reduce"] = u_visit["send"]
  /\ u_visit["co_broadcast"] = u_visit["send"]
  /\ \A op \in UnravelOps : \A i \in DOMAIN u_visit[op] :
        u_visit[op][i] \in ElementsOf(u_source)

\* C37 as stated: for every non-contiguous descriptor of bounded rank, rank 3
\* included, the sequence of element offsets visited by the per-element loop
\* of co_reduce and co_broadcast equals the sequence of the per-element loop
\* of the transfers for the same descriptor, and every offset addresses an
\* element of the array.
C37_SameUnravel == UnravelledSection => SameUnravel

\* What holds: the loops agree for the descriptors of rank 1 and 2, and the
\* loop of the transfers visits the elements of the array for every rank.
SameUnravelToRank2 ==
  /\ UnravelledSection /\ Len(u_source) <= 2 => SameUnravel
  /\ UnravelledSection =>
       \A i \in DOMAIN u_visit["send"] : u_visit["send"][i] \in ElementsOf(u_source)

\* The loops have agreed on a section of a matrix.
SameUnravelRank2 == UnravelledSection /\ Len(u_source) = 2 /\ SameUnravel

(***************************************************************************)
(*                               ATOMIC_OP                                 *)
(*                                                                         *)
(* PREFIX(atomic_op) in a build with MPI_VERSION >= 3, on one atomic       *)
(* variable per image, an integer of WordBits bits.  MPI_Fetch_and_op is   *)
(* atomic with respect to the accumulate calls of the other images on the  *)
(* same word, and the call is made under an exclusive lock of the target:  *)
(* it is one step.                                                         *)
(***************************************************************************)
AtomicImages == 2
WordBits == 2

AImages == 1 .. AtomicImages

Words == 0 .. 2 ^ WordBits - 1

\* The op codes the compiler passes (1, 2, 4, 5) and one it does not.
OpCodes == 1 .. 5

NoAtomicCall == [op |-> 0]

\* What the variable passed as old holds before any call.
OldUnset == 2 ^ WordBits

\* One bit of MPI_BAND, MPI_BOR, MPI_BXOR.
bit_op(mpi_op, x, y) ==
  CASE mpi_op = "MPI_BAND" -> x * y
    [] mpi_op = "MPI_BOR" -> x + y - x * y
    [] mpi_op = "MPI_BXOR" -> (x + y) % 2

RECURSIVE bitwise(_, _, _, _)
bitwise(mpi_op, a, b, n) ==
  IF n = 0 THEN 0
  ELSE bit_op(mpi_op, a % 2, b % 2) + 2 * bitwise(mpi_op, a \div 2, b \div 2, n - 1)

\* The word MPI_Fetch_and_op leaves at the target.
accumulate(mpi_op, target, value) ==
  IF mpi_op = "MPI_SUM" THEN (target + value) % 2 ^ WordBits
  ELSE bitwise(mpi_op, target, value, WordBits)

\* switch (op): the MPI operation of an op code, "none" for the default case.
mpi_op_of(op) ==
  CASE op = 1 -> "MPI_SUM" [] op = 2 -> "MPI_BAND" [] op = 4 -> "MPI_BOR"
    [] op = 5 -> "MPI_BXOR" [] OTHER -> "none"

\* image of atomic_op, as an image index.
atomic_image(i, image_index) == IF image_index # 0 THEN image_index ELSE i

\* old = malloc (kind): where the parameter old points when MPI_Fetch_and_op
\* is called, whatever the caller passed ("caller" for its variable, "NULL").
old_at_fetch(old) == "malloc"

\* PREFIX(atomic_op) by image i.  The previous value is fetched to the place
\* old points to, which is then freed.
atomic_op(i, op, image_index, value, old) ==
  LET image == atomic_image(i, image_index)
      previous == at_word[image] IN
  /\ at_word' = IF mpi_op_of(op) = "none" THEN at_word
                ELSE [at_word EXCEPT ![image] = accumulate(mpi_op_of(op), @, value)]
  /\ at_old' = IF mpi_op_of(op) # "none" /\ old_at_fetch(old) = "caller"
               THEN [at_old EXCEPT ![i] = previous] ELSE at_old
  /\ at_last' = [op |-> op, img |-> i, image_index |-> image_index, value |-> value,
                 old |-> old]

AtomicIdle == at_word = <<>> /\ at_old = <<>> /\ at_last = NoAtomicCall

AtomicInit ==
  /\ at_word = [j \in AImages |-> 0]
  /\ at_old = [j \in AImages |-> OldUnset]
  /\ at_last = NoAtomicCall

AtomicNext ==
  \/ \E i \in AImages, op \in OpCodes, image_index \in 0 .. AtomicImages,
        value \in Words, old \in {"caller", "NULL"} :
       atomic_op(i, op, image_index, value, old) /\ UNCHANGED notAtomicVars

\* The step is a call of atomic_op with one of the op codes 1, 2, 4, 5.
FetchAndOpCall == at_last' # at_last /\ at_last'.op \in {1, 2, 4, 5}

\* The word of the target becomes (previous OP value); image_index 0
\* addresses the calling image; no other word changes.
TargetUpdated ==
  LET c == at_last'
      t == IF c.image_index = 0 THEN c.img ELSE c.image_index
      want == CASE c.op = 1 -> (at_word[t] + c.value) % 2 ^ WordBits
                [] c.op = 2 -> bitwise("MPI_BAND", at_word[t], c.value, WordBits)
                [] c.op = 4 -> bitwise("MPI_BOR", at_word[t], c.value, WordBits)
                [] c.op = 5 -> bitwise("MPI_BXOR", at_word[t], c.value, WordBits) IN
  at_word' = [at_word EXCEPT ![t] = want]

\* The previous value of the target is in the variable the caller passed as
\* old.
OldDelivered ==
  LET c == at_last'
      t == IF c.image_index = 0 THEN c.img ELSE c.image_index IN
  c.old = "caller" => at_old'[c.img] = at_word[t]

\* C38 as stated: atomic_op is a fetch-and-op: for the op codes 1, 2, 4 and 5
\* the target word becomes (previous SUM / BAND / BOR / BXOR value) in one
\* atomic step, and the previous value of the target is delivered to the
\* caller's old argument; image_index 0 addresses the calling image.
C38_FetchAndOp == [][FetchAndOpCall => TargetUpdated /\ OldDelivered]_vars

\* What holds: the update of the target, and old is never written.
AtomicOpUpdates == [][FetchAndOpCall => TargetUpdated /\ UNCHANGED at_old]_vars

\* Image 1 has or-ed 2 into its own word, which held 1, through image_index 0
\* with a variable for old.
AtomicOpMade ==
  /\ at_last = [op |-> 4, img |-> 1, image_index |-> 0, value |-> 2, old |-> "caller"]
  /\ at_word[1] = 3

(***************************************************************************)
(*          THE RECEIVES OF sync_images AFTER THE CALL HAS RETURNED         *)
(*                                                                         *)
(* Stated on the model of sync images above: s_req holds the receives of   *)
(* the call in progress, s_stale those that earlier calls left posted.     *)
(***************************************************************************)
\* The receives image i has posted for src and that have not completed.
Outstanding(i, src) ==
  s_stale[i][src] + (IF s_req[i][src] = "pending" THEN 1 ELSE 0)

\* C40 as stated: whenever sync_images returns, on the normal path or after
\* it saw STOPPED_IMAGE or an error, none of the asynchronous receives it
\* posted is still outstanding, so that no message is ever consumed by a
\* receive left over from an earlier call.
C40_NoReceiveOutlives ==
  \A i \in SImages : \A src \in SImages :
    spc[i] = "idle" => Outstanding(i, src) = 0

\* What holds: a call that returns stat = 0 leaves none of its receives
\* outstanding, and receives are left over only by a return of a call that
\* has been handed STAT_STOPPED_IMAGE.
ReceivesOfNormalReturn ==
  [][\A i \in SImages :
       /\ (s_last'.img = i /\ s_last'.stat = 0) =>
             /\ \A src \in SImages : s_req'[i][src] # "pending"
             /\ s_stale'[i] = s_stale[i]
       /\ (\E src \in SImages : s_stale'[i][src] > s_stale[i][src]) =>
             /\ s_last'.img = i /\ s_last'.stat # 0
             /\ \E src \in SImages : arrived[i][src] = STAT_STOPPED_IMAGE]_vars

\* Image 1 has returned from sync_images with stat = STAT_STOPPED_IMAGE and
\* one of its receives left posted.
ReceiveLeftOver ==
  /\ s_last.img = 1 /\ s_last.stat = STAT_STOPPED_IMAGE /\ spc[1] = "idle"
  /\ \E src \in SImages : s_stale[1][src] > 0

(***************************************************************************)
(*               finalize_internal WITH A STATUS CODE                      *)
(*                                                                         *)
(* An image calls finalize (status code 0) or, through terminate_internal, *)
(* finalize_internal with the status code of a stop, an error stop or an   *)
(* error.  The teardown after the barrier, whose order is the subject of   *)
(* the section on finalize_internal (0), is one step here.                 *)
(***************************************************************************)
AbnormalImages == 3

BImages == 1 .. AbnormalImages

\* The stat_code arguments of the calls of terminate_internal: the stops,
\* a failed image, and error codes.
StatCodes == {STAT_STOPPED_IMAGE, STAT_FAILED_IMAGE, 1, 99}

\* What finalize_internal releases: the tokens of both lists with their
\* windows, the dynamic window, the status window and the communicator.
Resources == {"slave_tokens", "master_tokens", "global_dynamic_win", "stat_tok",
              "CAF_COMM_WORLD"}

\* A plausible slip: every call goes on to the barrier and the teardown.
enters_barrier_always(status_code) == TRUE

\* finalize_internal after the announcing loop: `if (status_code == 0)
\* MPI_Barrier (CAF_COMM_WORLD); else return;`.
enters_barrier(status_code) == status_code = 0

\* images_full of image i: every image but i, ascending.
fi_images_full(this_image) ==
  [k \in 1 .. AbnormalImages - 1 |-> IF k < this_image THEN k ELSE k + 1]

\* finalize_internal (status_code) up to the announcing loop: img_status is
\* set between CAF_Win_lock and CAF_Win_unlock on the image's own slot.
fi_enter(i, status_code) ==
  /\ fi_pc[i] = "run"
  /\ fi_code' = [fi_code EXCEPT ![i] = status_code]
  /\ fi_img_status' = [fi_img_status EXCEPT ![i] = status_word(status_code)]
  /\ fi_idx' = [fi_idx EXCEPT ![i] = 0]
  /\ fi_pc' = [fi_pc EXCEPT ![i] = "announce"]
  /\ UNCHANGED <<fi_sent, fi_arrived, fi_held, fi_is_finalized, fi_build>>

\* PREFIX(finalize): finalize_internal (0).
fi_finalize(i) == fi_enter(i, 0)

\* terminate_internal (stat_code, exit_code): finalize_internal (stat_code).
fi_terminate(i, stat_code) == fi_enter(i, stat_code)

\* One turn of the announcing loop, or its end: into the barrier, or back to
\* the caller.
fi_announce(i) ==
  /\ fi_pc[i] = "announce"
  /\ IF announce_more(fi_idx[i], AbnormalImages)
     THEN LET dst == fi_images_full(i)[fi_idx[i] + 1] IN
          /\ fi_sent' = [fi_sent EXCEPT ![i][dst] = Append(@, fi_img_status[i])]
          /\ fi_idx' = [fi_idx EXCEPT ![i] = @ + 1]
          /\ UNCHANGED <<fi_pc, fi_arrived>>
     ELSE /\ IF enters_barrier(fi_code[i])
             THEN /\ fi_arrived' = fi_arrived \cup {i}
                  /\ fi_pc' = [fi_pc EXCEPT ![i] = "barrier"]
             ELSE /\ fi_pc' = [fi_pc EXCEPT ![i] = "returned"]
                  /\ UNCHANGED fi_arrived
          /\ UNCHANGED <<fi_sent, fi_idx>>
  /\ UNCHANGED <<fi_code, fi_img_status, fi_held, fi_is_finalized, fi_build>>

\* MPI_Barrier returns when every image has entered it; then the tokens, the
\* windows and the communicator are released and caf_is_finalized is set.
fi_teardown(i) ==
  /\ fi_pc[i] = "barrier"
  /\ fi_arrived = BImages
  /\ fi_held' = [fi_held EXCEPT ![i] = {}]
  /\ fi_is_finalized' = [fi_is_finalized EXCEPT ![i] = TRUE]
  /\ fi_pc' = [fi_pc EXCEPT ![i] = "done"]
  /\ UNCHANGED <<fi_code, fi_img_status, fi_idx, fi_sent, fi_arrived, fi_build>>

\* terminate_internal after finalize_internal has returned: MPI_Abort (not in
\* a build WITH_FAILED_IMAGES), which ends every process of the job, and exit.
fi_exit(i) ==
  /\ fi_pc[i] = "returned"
  /\ fi_pc' = [j \in BImages |->
                 IF j = i THEN "exited"
                 ELSE IF fi_build = "plain" /\ fi_pc[j] # "exited" THEN "killed"
                 ELSE fi_pc[j]]
  /\ UNCHANGED <<fi_code, fi_img_status, fi_idx, fi_sent, fi_arrived, fi_held,
                 fi_is_finalized, fi_build>>

AbnormalIdle ==
  /\ fi_pc = [i \in BImages |-> "run"]
  /\ fi_code = [i \in BImages |-> NoValue]
  /\ fi_img_status = [i \in BImages |-> 0]
  /\ fi_idx = [i \in BImages |-> 0]
  /\ fi_sent = [i \in BImages |-> [j \in BImages |-> <<>>]]
  /\ fi_arrived = {}
  /\ fi_held = [i \in BImages |-> Resources]
  /\ fi_is_finalized = [i \in BImages |-> FALSE]
  /\ fi_build = "plain"

AbnormalInit ==
  /\ fi_pc = [i \in BImages |-> "run"]
  /\ fi_code = [i \in BImages |-> NoValue]
  /\ fi_img_status = [i \in BImages |-> 0]
  /\ fi_idx = [i \in BImages |-> 0]
  /\ fi_sent = [i \in BImages |-> [j \in BImages |-> <<>>]]
  /\ fi_arrived = {}
  /\ fi_held = [i \in BImages |-> Resources]
  /\ fi_is_finalized = [i \in BImages |-> FALSE]
  /\ fi_build \in {"plain", "WITH_FAILED_IMAGES"}

AbnormalNext ==
  \/ \E i \in BImages : fi_finalize(i) /\ UNCHANGED notAbnormalVars
  \/ \E i \in BImages, stat_code \in StatCodes :
       fi_terminate(i, stat_code) /\ UNCHANGED notAbnormalVars
  \/ \E i \in BImages : fi_announce(i) /\ UNCHANGED notAbnormalVars
  \/ \E i \in BImages : fi_teardown(i) /\ UNCHANGED notAbnormalVars
  \/ \E i \in BImages : fi_exit(i) /\ UNCHANGED notAbnormalVars

\* Image i is in, or has returned from, finalize_internal with a nonzero
\* status code.
Abnormal(i) == fi_code[i] \notin {NoValue, 0}

\* finalize_internal has returned on image i (and the process may have ended).
FiReturned(i) == fi_pc[i] \in {"returned", "exited", "done"}

\* C39: finalize_internal called with a nonzero status code publishes that
\* code as the image's status word and sends it to every other image, and
\* then returns without entering the barrier, without releasing any token,
\* window or communicator and without marking the runtime finalized.
C39_AbnormalNoTeardown ==
  \A i \in BImages :
    Abnormal(i) =>
      /\ fi_img_status[i] = fi_code[i]
      /\ i \notin fi_arrived
      /\ fi_held[i] = Resources
      /\ ~fi_is_finalized[i]
      /\ fi_pc[i] \notin {"barrier", "done"}
      /\ FiReturned(i) =>
           \A j \in BImages \ {i} : fi_sent[i][j] = <<fi_code[i]>>

\* C39 witness: image 1 has returned from finalize_internal
\* (STAT_FAILED_IMAGE) in the build with failed images, its status word sent
\* to images 2 and 3, while image 2 waits in the barrier of finalize.
C39_Witness ==
  /\ fi_build = "WITH_FAILED_IMAGES"
  /\ fi_pc[1] = "returned" /\ fi_code[1] = STAT_FAILED_IMAGE
  /\ fi_img_status[1] = STAT_FAILED_IMAGE
  /\ fi_sent[1][2] = <<STAT_FAILED_IMAGE>> /\ fi_sent[1][3] = <<STAT_FAILED_IMAGE>>
  /\ fi_pc[2] = "barrier" /\ fi_arrived = {2}
  /\ fi_held[1] = Resources /\ ~fi_is_finalized[1]

\* All images have finished finalize: the teardown has been made.
NormalTeardown ==
  \A i \in BImages : fi_pc[i] = "done" /\ fi_held[i] = {} /\ fi_is_finalized[i]

(***************************************************************************)
(*                          SPECIFICATIONS                                 *)
(*                                                                         *)
(* Each specification runs one subsystem and holds the others idle.        *)
(***************************************************************************)
LockSpecInit == LockInit /\ EvIdle /\ SyncIdle /\ RegIdle /\ XferIdle /\ SecIdle /\ ByteIdle /\ RefIdle /\ RedIdle /\ FailIdle /\ OwnIdle /\ StopIdle /\ TokIdle /\ FinIdle /\ ZeroIdle /\ StealIdle /\ PutIdle /\ HandlerIdle /\ WinLockIdle /\ SelfIdle /\ UnravelIdle /\ AtomicIdle /\ AbnormalIdle

LockSpec == LockSpecInit /\ [][LockNext]_vars

LockAnySpecInit == LockInit /\ EvIdle /\ SyncIdle /\ RegIdle /\ XferIdle /\ SecIdle /\ ByteIdle /\ RefIdle /\ RedIdle /\ FailIdle /\ OwnIdle /\ StopIdle /\ TokIdle /\ FinIdle /\ ZeroIdle /\ StealIdle /\ PutIdle /\ HandlerIdle /\ WinLockIdle /\ SelfIdle /\ UnravelIdle /\ AtomicIdle /\ AbnormalIdle

LockAnySpec == LockAnySpecInit /\ [][LockAnyNext]_vars

LockPairFairSpecInit == LockInit /\ EvIdle /\ SyncIdle /\ RegIdle /\ XferIdle /\ SecIdle /\ ByteIdle /\ RefIdle /\ RedIdle /\ FailIdle /\ OwnIdle /\ StopIdle /\ TokIdle /\ FinIdle /\ ZeroIdle /\ StealIdle /\ PutIdle /\ HandlerIdle /\ WinLockIdle /\ SelfIdle /\ UnravelIdle /\ AtomicIdle /\ AbnormalIdle

\* The retry loop of a waiting image keeps running.
LockPairFairSpec ==
  /\ LockPairFairSpecInit
  /\ [][LockPairNext]_vars
  /\ \A w \in PairImages : WF_vars(mutex_lock_retry(w) /\ UNCHANGED notLockVars)

EventSpecInit == EventInit /\ LockIdle /\ SyncIdle /\ RegIdle /\ XferIdle /\ SecIdle /\ ByteIdle /\ RefIdle /\ RedIdle /\ FailIdle /\ OwnIdle /\ StopIdle /\ TokIdle /\ FinIdle /\ ZeroIdle /\ StealIdle /\ PutIdle /\ HandlerIdle /\ WinLockIdle /\ SelfIdle /\ UnravelIdle /\ AtomicIdle /\ AbnormalIdle

EventSpec == EventSpecInit /\ [][EventNext]_vars

EventFairSpecInit == EventS4Init /\ LockIdle /\ SyncIdle /\ RegIdle /\ XferIdle /\ SecIdle /\ ByteIdle /\ RefIdle /\ RedIdle /\ FailIdle /\ OwnIdle /\ StopIdle /\ TokIdle /\ FinIdle /\ ZeroIdle /\ StealIdle /\ PutIdle /\ HandlerIdle /\ WinLockIdle /\ SelfIdle /\ UnravelIdle /\ AtomicIdle /\ AbnormalIdle

\* Every image is a process of its own and keeps running.
EventFairSpec ==
  /\ EventFairSpecInit
  /\ [][EventNext]_vars
  /\ \A i \in EImages : WF_vars(EventStep(i))

SyncSpecInit == SyncInit /\ LockIdle /\ EvIdle /\ RegIdle /\ XferIdle /\ SecIdle /\ ByteIdle /\ RefIdle /\ RedIdle /\ FailIdle /\ OwnIdle /\ StopIdle /\ TokIdle /\ FinIdle /\ ZeroIdle /\ StealIdle /\ PutIdle /\ HandlerIdle /\ WinLockIdle /\ SelfIdle /\ UnravelIdle /\ AtomicIdle /\ AbnormalIdle

SyncSpec == SyncSpecInit /\ [][SyncNext]_vars

SyncAllOfSetSpecInit == SyncAllOfSetInit /\ LockIdle /\ EvIdle /\ RegIdle /\ XferIdle /\ SecIdle /\ ByteIdle /\ RefIdle /\ RedIdle /\ FailIdle /\ OwnIdle /\ StopIdle /\ TokIdle /\ FinIdle /\ ZeroIdle /\ StealIdle /\ PutIdle /\ HandlerIdle /\ WinLockIdle /\ SelfIdle /\ UnravelIdle /\ AtomicIdle /\ AbnormalIdle

\* Every image keeps running and the MPI library keeps matching messages.
SyncAllOfSetSpec ==
  /\ SyncAllOfSetSpecInit
  /\ [][SyncAllOfSetNext]_vars
  /\ \A i \in SImages : WF_vars(SyncStep(i))
  /\ WF_vars(SyncProgress)

RegSpecInit == RegInit /\ LockIdle /\ EvIdle /\ SyncIdle /\ XferIdle /\ SecIdle /\ ByteIdle /\ RefIdle /\ RedIdle /\ FailIdle /\ OwnIdle /\ StopIdle /\ TokIdle /\ FinIdle /\ ZeroIdle /\ StealIdle /\ PutIdle /\ HandlerIdle /\ WinLockIdle /\ SelfIdle /\ UnravelIdle /\ AtomicIdle /\ AbnormalIdle

RegSpec == RegSpecInit /\ [][RegNext]_vars

XferSpecInit == XferInit /\ LockIdle /\ EvIdle /\ SyncIdle /\ RegIdle /\ SecIdle /\ ByteIdle /\ RefIdle /\ RedIdle /\ FailIdle /\ OwnIdle /\ StopIdle /\ TokIdle /\ FinIdle /\ ZeroIdle /\ StealIdle /\ PutIdle /\ HandlerIdle /\ WinLockIdle /\ SelfIdle /\ UnravelIdle /\ AtomicIdle /\ AbnormalIdle

XferSpec == XferSpecInit /\ [][XferNext]_vars

SecSpecInit == SecInit /\ LockIdle /\ EvIdle /\ SyncIdle /\ RegIdle /\ XferIdle /\ ByteIdle /\ RefIdle /\ RedIdle /\ FailIdle /\ OwnIdle /\ StopIdle /\ TokIdle /\ FinIdle /\ ZeroIdle /\ StealIdle /\ PutIdle /\ HandlerIdle /\ WinLockIdle /\ SelfIdle /\ UnravelIdle /\ AtomicIdle /\ AbnormalIdle

SecSpec == SecSpecInit /\ [][SecNext]_vars

ByteSpecInit == ByteInit /\ LockIdle /\ EvIdle /\ SyncIdle /\ RegIdle /\ XferIdle /\ SecIdle /\ RefIdle /\ RedIdle /\ FailIdle /\ OwnIdle /\ StopIdle /\ TokIdle /\ FinIdle /\ ZeroIdle /\ StealIdle /\ PutIdle /\ HandlerIdle /\ WinLockIdle /\ SelfIdle /\ UnravelIdle /\ AtomicIdle /\ AbnormalIdle

ByteSpec == ByteSpecInit /\ [][ByteNext]_vars

RefSpecInit == RefInit /\ LockIdle /\ EvIdle /\ SyncIdle /\ RegIdle /\ XferIdle /\ SecIdle /\ ByteIdle /\ RedIdle /\ FailIdle /\ OwnIdle /\ StopIdle /\ TokIdle /\ FinIdle /\ ZeroIdle /\ StealIdle /\ PutIdle /\ HandlerIdle /\ WinLockIdle /\ SelfIdle /\ UnravelIdle /\ AtomicIdle /\ AbnormalIdle

RefSpec == RefSpecInit /\ [][RefNext]_vars

RedSpecInit == RedInit /\ LockIdle /\ EvIdle /\ SyncIdle /\ RegIdle /\ XferIdle /\ SecIdle /\ ByteIdle /\ RefIdle /\ FailIdle /\ OwnIdle /\ StopIdle /\ TokIdle /\ FinIdle /\ ZeroIdle /\ StealIdle /\ PutIdle /\ HandlerIdle /\ WinLockIdle /\ SelfIdle /\ UnravelIdle /\ AtomicIdle /\ AbnormalIdle

RedSpec == RedSpecInit /\ [][RedNext]_vars

FailSpecInit == FailInit /\ LockIdle /\ EvIdle /\ SyncIdle /\ RegIdle /\ XferIdle /\ SecIdle /\ ByteIdle /\ RefIdle /\ RedIdle /\ OwnIdle /\ StopIdle /\ TokIdle /\ FinIdle /\ ZeroIdle /\ StealIdle /\ PutIdle /\ HandlerIdle /\ WinLockIdle /\ SelfIdle /\ UnravelIdle /\ AtomicIdle /\ AbnormalIdle

FailSpec == FailSpecInit /\ [][FailNext]_vars

OwnSpecInit == OwnInit /\ LockIdle /\ EvIdle /\ SyncIdle /\ RegIdle /\ XferIdle /\ SecIdle /\ ByteIdle /\ RefIdle /\ RedIdle /\ FailIdle /\ StopIdle /\ TokIdle /\ FinIdle /\ ZeroIdle /\ StealIdle /\ PutIdle /\ HandlerIdle /\ WinLockIdle /\ SelfIdle /\ UnravelIdle /\ AtomicIdle /\ AbnormalIdle

OwnSpec == OwnSpecInit /\ [][OwnNext]_vars

StopSpecInit == StopInit /\ LockIdle /\ EvIdle /\ SyncIdle /\ RegIdle /\ XferIdle /\ SecIdle /\ ByteIdle /\ RefIdle /\ RedIdle /\ FailIdle /\ OwnIdle /\ TokIdle /\ FinIdle /\ ZeroIdle /\ StealIdle /\ PutIdle /\ HandlerIdle /\ WinLockIdle /\ SelfIdle /\ UnravelIdle /\ AtomicIdle /\ AbnormalIdle

StopSpec == StopSpecInit /\ [][StopNext]_vars

TokSpecInit == TokInit /\ LockIdle /\ EvIdle /\ SyncIdle /\ RegIdle /\ XferIdle /\ SecIdle /\ ByteIdle /\ RefIdle /\ RedIdle /\ FailIdle /\ OwnIdle /\ StopIdle /\ FinIdle /\ ZeroIdle /\ StealIdle /\ PutIdle /\ HandlerIdle /\ WinLockIdle /\ SelfIdle /\ UnravelIdle /\ AtomicIdle /\ AbnormalIdle

TokSpec == TokSpecInit /\ [][TokNext]_vars

FinSpecInit == FinInit /\ LockIdle /\ EvIdle /\ SyncIdle /\ RegIdle /\ XferIdle /\ SecIdle /\ ByteIdle /\ RefIdle /\ RedIdle /\ FailIdle /\ OwnIdle /\ StopIdle /\ TokIdle /\ ZeroIdle /\ StealIdle /\ PutIdle /\ HandlerIdle /\ WinLockIdle /\ SelfIdle /\ UnravelIdle /\ AtomicIdle /\ AbnormalIdle

FinSpec == FinSpecInit /\ [][FinNext]_vars

ZeroSpecInit == ZeroInit /\ LockIdle /\ EvIdle /\ SyncIdle /\ RegIdle /\ XferIdle /\ SecIdle /\ ByteIdle /\ RefIdle /\ RedIdle /\ FailIdle /\ OwnIdle /\ StopIdle /\ TokIdle /\ FinIdle /\ StealIdle /\ PutIdle /\ HandlerIdle /\ WinLockIdle /\ SelfIdle /\ UnravelIdle /\ AtomicIdle /\ AbnormalIdle

ZeroSpec == ZeroSpecInit /\ [][ZeroNext]_vars

StealSpecInit == StealInit /\ LockIdle /\ EvIdle /\ SyncIdle /\ RegIdle /\ XferIdle /\ SecIdle /\ ByteIdle /\ RefIdle /\ RedIdle /\ FailIdle /\ OwnIdle /\ StopIdle /\ TokIdle /\ FinIdle /\ ZeroIdle /\ PutIdle /\ HandlerIdle /\ WinLockIdle /\ SelfIdle /\ UnravelIdle /\ AtomicIdle /\ AbnormalIdle

StealSpec == StealSpecInit /\ [][StealNext]_vars

PutSpecInit == PutInit /\ LockIdle /\ EvIdle /\ SyncIdle /\ RegIdle /\ XferIdle /\ SecIdle /\ ByteIdle /\ RefIdle /\ RedIdle /\ FailIdle /\ OwnIdle /\ StopIdle /\ TokIdle /\ FinIdle /\ ZeroIdle /\ StealIdle /\ HandlerIdle /\ WinLockIdle /\ SelfIdle /\ UnravelIdle /\ AtomicIdle /\ AbnormalIdle

PutSpec == PutSpecInit /\ [][PutNext]_vars

HandlerSpecInit == HandlerInit /\ LockIdle /\ EvIdle /\ SyncIdle /\ RegIdle /\ XferIdle /\ SecIdle /\ ByteIdle /\ RefIdle /\ RedIdle /\ FailIdle /\ OwnIdle /\ StopIdle /\ TokIdle /\ FinIdle /\ ZeroIdle /\ StealIdle /\ PutIdle /\ WinLockIdle /\ SelfIdle /\ UnravelIdle /\ AtomicIdle /\ AbnormalIdle

HandlerSpec == HandlerSpecInit /\ [][HandlerNext]_vars

WinLockSpecInit == WinLockInit /\ LockIdle /\ EvIdle /\ SyncIdle /\ RegIdle /\ XferIdle /\ SecIdle /\ ByteIdle /\ RefIdle /\ RedIdle /\ FailIdle /\ OwnIdle /\ StopIdle /\ TokIdle /\ FinIdle /\ ZeroIdle /\ StealIdle /\ PutIdle /\ HandlerIdle /\ SelfIdle /\ UnravelIdle /\ AtomicIdle /\ AbnormalIdle

WinLockSpec == WinLockSpecInit /\ [][WinLockNext]_vars

SelfSpecInit == SelfInit /\ LockIdle /\ EvIdle /\ SyncIdle /\ RegIdle /\ XferIdle /\ SecIdle /\ ByteIdle /\ RefIdle /\ RedIdle /\ FailIdle /\ OwnIdle /\ StopIdle /\ TokIdle /\ FinIdle /\ ZeroIdle /\ StealIdle /\ PutIdle /\ HandlerIdle /\ WinLockIdle /\ UnravelIdle /\ AtomicIdle /\ AbnormalIdle

SelfSpec == SelfSpecInit /\ [][SelfNext]_vars

UnravelSpecInit == UnravelInit /\ LockIdle /\ EvIdle /\ SyncIdle /\ RegIdle /\ XferIdle /\ SecIdle /\ ByteIdle /\ RefIdle /\ RedIdle /\ FailIdle /\ OwnIdle /\ StopIdle /\ TokIdle /\ FinIdle /\ ZeroIdle /\ StealIdle /\ PutIdle /\ HandlerIdle /\ WinLockIdle /\ SelfIdle /\ AtomicIdle /\ AbnormalIdle

UnravelSpec == UnravelSpecInit /\ [][UnravelNext]_vars

AtomicSpecInit == AtomicInit /\ LockIdle /\ EvIdle /\ SyncIdle /\ RegIdle /\ XferIdle /\ SecIdle /\ ByteIdle /\ RefIdle /\ RedIdle /\ FailIdle /\ OwnIdle /\ StopIdle /\ TokIdle /\ FinIdle /\ ZeroIdle /\ StealIdle /\ PutIdle /\ HandlerIdle /\ WinLockIdle /\ SelfIdle /\ UnravelIdle /\ AbnormalIdle

AtomicSpec == AtomicSpecInit /\ [][AtomicNext]_vars

AbnormalSpecInit == AbnormalInit /\ LockIdle /\ EvIdle /\ SyncIdle /\ RegIdle /\ XferIdle /\ SecIdle /\ ByteIdle /\ RefIdle /\ RedIdle /\ FailIdle /\ OwnIdle /\ StopIdle /\ TokIdle /\ FinIdle /\ ZeroIdle /\ StealIdle /\ PutIdle /\ HandlerIdle /\ WinLockIdle /\ SelfIdle /\ UnravelIdle /\ AtomicIdle

AbnormalSpec == AbnormalSpecInit /\ [][AbnormalNext]_vars

====
